---- MODULE Spec2Model ----
(***************************************************************************)
(* Request dispatch / action invocation engine of aio-cli-plugin-app-dev   *)
(* (run-dev): the express handlers serveWebAction and serveNonWebAction,   *)
(* invokeSequence, invokeAction and httpStatusResponse.                    *)
(*                                                                         *)
(* Spec        the server started by runDev for a manifest of actions and  *)
(*             sequences, one request                                      *)
(* SpecItems   the server started for one item with every combination of   *)
(*             the web field and the web-export annotation                 *)
(* SpecReload  two requests in flight while an entry-point file is edited  *)
(* SpecDev     the dev command: Dev.run, verifyActionConfig,               *)
(*             runOneExtensionPoint                                        *)
(* SpecCleanup the Cleanup registry of the dev command: add, wait, run and *)
(*             the SIGINT listener                                         *)
(* SpecAlias   a request for sequence s whose actions may assign to the    *)
(*             __ow_headers object of their params                         *)
(* SpecWatch   the actions watcher: the change handler of                  *)
(*             createChangeHandler, its Queue and the builds it starts;    *)
(*             SpecWatchFair adds that a build that started settles;       *)
(*             SpecWatchClose adds that watcher.close() may reject         *)
(*                                                                         *)
(* Strings the code inspects character by character (urls, names, the      *)
(* comma separated action list of a sequence) are sequences of one         *)
(* character strings.  Other JavaScript values are tagged records, and a   *)
(* JavaScript object is a function from its own keys to values.            *)
(***************************************************************************)
EXTENDS Integers, Sequences, FiniteSets, TLC

(***************************************************************************)
(* JavaScript values                                                       *)
(***************************************************************************)
Undef == [t |-> "undefined"]
Null == [t |-> "null"]
Str(x) == [t |-> "string", s |-> x]
Num(x) == [t |-> "number", n |-> x]
Bool(x) == [t |-> "boolean", b |-> x]
Obj(f) == [t |-> "object", o |-> f]
Arr(x) == [t |-> "array", a |-> x]
\* a string kept as its characters (names, urls)
Chars(x) == [t |-> "chars", c |-> x]

\* the object literal {}
EmptyObj == [k \in {} |-> Undef]

\* o[k] on a plain object: undefined when k is not an own key
Get(o, k) == IF k \in DOMAIN o THEN o[k] ELSE Undef

\* v?.[k]: undefined when v is undefined or null, or has no such property
Prop(v, k) == IF v.t = "object" THEN Get(v.o, k) ELSE Undef

\* { ...a, ...b } on plain objects: the keys of b override those of a
Spread(a, b) == [k \in (DOMAIN a) \cup (DOMAIN b) |-> IF k \in DOMAIN b THEN b[k] ELSE a[k]]

\* ...v inside an object literal: undefined, null and primitives spread nothing
SpreadOf(v) == IF v.t = "object" THEN v.o ELSE EmptyObj

\* JavaScript truthiness
Truthy(v) ==
  CASE v.t = "undefined" -> FALSE
    [] v.t = "null" -> FALSE
    [] v.t = "boolean" -> v.b
    [] v.t = "number" -> v.n # 0
    [] v.t = "string" -> v.s # ""
    [] v.t = "chars" -> v.c # <<>>
    [] OTHER -> TRUE

\* a || b
OrElse(a, b) == IF Truthy(a) THEN a ELSE b

\* a ?? b
Coalesce(a, b) == IF a.t \in {"undefined", "null"} THEN b ELSE a

(***************************************************************************)
(* String operations on character sequences                                *)
(***************************************************************************)
RECURSIVE SplitAcc(_, _, _, _)
SplitAcc(s, sep, cur, i) ==
  IF i > Len(s) THEN <<cur>>
  ELSE IF s[i] = sep THEN <<cur>> \o SplitAcc(s, sep, <<>>, i + 1)
  ELSE SplitAcc(s, sep, Append(cur, s[i]), i + 1)

\* s.split(sep) for a one character separator: always at least one piece
Split(s, sep) == SplitAcc(s, sep, <<>>, 1)

RECURSIVE TrimStart(_)
TrimStart(s) == IF s # <<>> /\ Head(s) = " " THEN TrimStart(Tail(s)) ELSE s

RECURSIVE TrimEnd(_)
TrimEnd(s) == IF s # <<>> /\ s[Len(s)] = " " THEN TrimEnd(SubSeq(s, 1, Len(s) - 1)) ELSE s

\* s.trim()
Trim(s) == TrimEnd(TrimStart(s))

RECURSIVE Join(_, _)
\* parts.join(sep)
Join(parts, sep) ==
  IF parts = <<>> THEN <<>>
  ELSE IF Len(parts) = 1 THEN parts[1]
  ELSE parts[1] \o <<sep>> \o Join(Tail(parts), sep)

\* s.startsWith(p)
StartsWith(s, p) == Len(s) >= Len(p) /\ SubSeq(s, 1, Len(p)) = p

\* header.toLowerCase() on the header names of the model
ToLowerCase(k) ==
  CASE k = "Authorization" -> "authorization"
    [] k = "AUTHORIZATION" -> "authorization"
    [] k = "X-Gw-Ims-Org-Id" -> "x-gw-ims-org-id"
    [] k = "X-GW-IMS-ORG-ID" -> "x-gw-ims-org-id"
    [] k = "GET" -> "get"
    [] k = "POST" -> "post"
    [] OTHER -> k

(***************************************************************************)
(* Constants of the dev server                                             *)
(***************************************************************************)
\* 'api/v1'
DEV_API_PREFIX == <<"a", "p", "i", "/", "v", "1">>
\* `${DEV_API_PREFIX}/web`
DEV_API_WEB_PREFIX == DEV_API_PREFIX \o <<"/", "w", "e", "b">>

(***************************************************************************)
(* The manifest handed to runDev (config.manifest.full.packages): package  *)
(* name -> package object.  Package p holds the actions and sequences,     *)
(* package q declares no actions at all.                                   *)
(***************************************************************************)
ActionA == Obj([function |-> Str("a.js"), web |-> Str("yes"),
                inputs |-> Obj([k |-> Str("in-a")])])
ActionB == Obj([function |-> Str("b.js"),
                annotations |-> Obj("web-export" :> Bool(TRUE) @@ "require-adobe-auth" :> Bool(TRUE)),
                inputs |-> Obj([k |-> Str("in-b"), j |-> Str("in-b")])])
ActionC == Obj([function |-> Str("c.js"),
                annotations |-> Obj("require-adobe-auth" :> Bool(FALSE))])
ActionN == Obj([function |-> Str("n.js"), web |-> Str("no"),
                annotations |-> Obj("web-export" :> Bool(FALSE))])
ActionR == Obj([function |-> Str("r.js"), web |-> Str("raw"),
                annotations |-> Obj("require-adobe-auth" :> Str("true"))])

\* 'a, b': a web sequence whose second action requires auth
SequenceS == Obj([actions |-> Chars(<<"a", ",", " ", "b">>), web |-> Str("yes")])
\* 'a,z ,b': the second component is no action of the package
SequenceM == Obj([actions |-> Chars(<<"a", ",", "z", " ", ",", "b">>), web |-> Bool(TRUE)])
\* ' c,a ,r': a web sequence over a non-web action, a web action and a raw action
SequenceT == Obj([actions |-> Chars(<<" ", "c", ",", "a", " ", ",", "r">>),
                  annotations |-> Obj("web-export" :> Str("true"))])
\* 'a': a sequence that is not web exposed
SequenceU == Obj([actions |-> Chars(<<"a">>)])
\* a web sequence without an action list
SequenceE == Obj([web |-> Str("yes")])
\* '': a web sequence whose action list is the empty string
SequenceO == Obj([actions |-> Chars(<<>>), web |-> Str("yes")])
\* 'b': a web sequence that shares its name with the non-web action n
SequenceN == Obj([actions |-> Chars(<<"b">>), web |-> Str("yes")])

PackageP == Obj([
  actions |-> Obj(<<"a">> :> ActionA @@ <<"b">> :> ActionB @@ <<"c">> :> ActionC
                  @@ <<"n">> :> ActionN @@ <<"r">> :> ActionR),
  sequences |-> Obj(<<"s">> :> SequenceS @@ <<"m">> :> SequenceM @@ <<"t">> :> SequenceT
                    @@ <<"u">> :> SequenceU @@ <<"e">> :> SequenceE @@ <<"n">> :> SequenceN
                    @@ <<"o">> :> SequenceO)])

PackageQ == Obj([license |-> Str("Apache-2.0")])

\* config.manifest.full.packages of the app the server is started for
ManifestPackages == <<"p">> :> PackageP @@ <<"q">> :> PackageQ

\* the entry-point files of the actions
FilePaths == {"a.js", "b.js", "c.js", "n.js", "r.js", "x.js"}

(***************************************************************************)
(* Pure helpers of run-dev                                                 *)
(***************************************************************************)
\* a >= n, for a status code that is a number; no other type is >= n here
GE(v, n) == v.t = "number" /\ v.n >= n

\* 'no' not taken for a falsy value
toBoolean_NoIsTrue(value) ==
  value # Str("false") /\ value # Bool(FALSE) /\ value # Undef

\* toBoolean of isWebAction
toBoolean(value) ==
  value # Str("no") /\ value # Str("false") /\ value # Bool(FALSE) /\ value # Undef

\* every item taken for a web action
isWebAction_Always(action) == TRUE

isWebAction(action) ==
  LET webExportValue == Prop(Prop(action, "annotations"), "web-export")
      webValue == Prop(action, "web")
  IN toBoolean(webExportValue) \/ toBoolean(webValue)

\* every web action taken for a raw one
isRawWebAction_AnyWeb(action) == isWebAction(action)

isRawWebAction(action) ==
  LET raw == Str("raw")
      webExportValue == Prop(Prop(action, "annotations"), "web-export")
      webValue == Prop(action, "web")
  IN webExportValue = raw \/ webValue = raw

\* the parameter default  actionInputs = {}
DefaultInputs(actionInputs) == IF actionInputs = Undef THEN Obj(EmptyObj) ELSE actionInputs

\* a header of the request winning over the forced value
OwHeaders_RequestWins(req) == Obj(Spread("x-forwarded-for" :> Str("127.0.0.1"), req.headers))

\* { ...req.headers, 'x-forwarded-for': '127.0.0.1' }
OwHeaders(req) == Obj(Spread(req.headers, "x-forwarded-for" :> Str("127.0.0.1")))

\* the declared inputs spread after the body
createActionParametersFromRequest_InputsLast(req, actionInputs) ==
  LET synthetic == [__ow_body |-> req.body,
                    __ow_headers |-> OwHeaders(req),
                    __ow_query |-> Obj(req.query),
                    __ow_method |-> Str(ToLowerCase(req.method))]
  IN Spread(Spread(Spread(synthetic, req.query),
                   IF req.isJson THEN SpreadOf(req.body) ELSE EmptyObj),
            SpreadOf(DefaultInputs(actionInputs)))

createActionParametersFromRequest(req, actionInputs) ==
  LET synthetic == [__ow_body |-> req.body,
                    __ow_headers |-> OwHeaders(req),
                    __ow_query |-> Obj(req.query),
                    __ow_method |-> Str(ToLowerCase(req.method))]
  IN Spread(Spread(Spread(synthetic, req.query), SpreadOf(DefaultInputs(actionInputs))),
            IF req.isJson THEN SpreadOf(req.body) ELSE EmptyObj)

\* the text of  `cannot authorize request, reason: missing ${headerKey} header`
MissingHeaderMessage(headerKey) ==
  CASE headerKey = "authorization" -> "cannot authorize request, reason: missing authorization header"
    [] headerKey = "x-gw-ims-org-id" -> "cannot authorize request, reason: missing x-gw-ims-org-id header"

\* the required headers checked in the other order
requiredAuthHeaders_Swapped == <<"x-gw-ims-org-id", "authorization">>

requiredAuthHeaders == <<"authorization", "x-gw-ims-org-id">>

\* the header names looked up as they were sent
LowerCaseKeys_AsSent(headers) == headers

\* the reduce that lower-cases the header names (no two names of a header
\* object of the model differ in case only)
LowerCaseKeys(headers) ==
  [k \in {ToLowerCase(h) : h \in DOMAIN headers} |->
     headers[CHOOSE h \in DOMAIN headers : ToLowerCase(h) = k]]

\* any annotations object taken for the auth annotation
RequiresAuth_AnyAnnotation(action) == Prop(action, "annotations") # Undef

\* whether the action is protected
RequiresAuth(action) == Truthy(Prop(Prop(action, "annotations"), "require-adobe-auth"))

Unauthorized(headerKey) ==
  [statusCode |-> Num(401), body |-> Obj([error |-> Str(MissingHeaderMessage(headerKey))])]

\* the auth check at the head of invokeAction: the 401 result of the first
\* required header that is missing, or Undef when the check passes
AuthGate(action, params) ==
  IF RequiresAuth(action)
  THEN LET owHeaders == LowerCaseKeys(SpreadOf(Coalesce(Get(params, "__ow_headers"), Obj(EmptyObj))))
           missing == SelectSeq(requiredAuthHeaders, LAMBDA headerKey : ~Truthy(Get(owHeaders, headerKey)))
       IN IF missing # <<>> THEN Obj(Unauthorized(Head(missing))) ELSE Undef
  ELSE Undef

\* a main that threw taken for one that returned nothing
InvalidResponse_AsNoContent == Obj([statusCode |-> Num(204), body |-> Str("")])

InvalidResponse ==
  Obj([statusCode |-> Num(400), body |-> Obj([error |-> Str("Response is not valid 'message/http'.")])])

\* no response data taken for an invalid response
NoResponseData_AsInvalid == [statusCode |-> Num(400), body |-> Str("")]

\* the status and body of a main that resolved to no response data
NoResponseData == [statusCode |-> Num(204), body |-> Str("")]

\* the status code used when the response omits it
DefaultStatusCode == Num(200)

\* the fields of the response spread after the normalized ones
NormalizeResponse_FieldsWin(response) ==
  LET hasError == Truthy(Prop(response, "error"))
      headers == IF Truthy(response) THEN Prop(response, "headers") ELSE Undef
      statusCode0 == IF Truthy(response)
                     THEN (IF hasError THEN Prop(Prop(response, "error"), "statusCode")
                           ELSE Prop(response, "statusCode"))
                     ELSE NoResponseData.statusCode
      body0 == IF Truthy(response)
               THEN (IF hasError THEN Prop(Prop(response, "error"), "body")
                     ELSE Prop(response, "body"))
               ELSE NoResponseData.body
      statusCode == OrElse(statusCode0, DefaultStatusCode)
      body == OrElse(body0, Str(""))
      isError == GE(statusCode, 400)
      isObject == response.t \in {"object", "null"}
  IN Obj(Spread([headers |-> headers, statusCode |-> statusCode, body |-> body],
                IF isObject /\ ~isError THEN SpreadOf(response) ELSE EmptyObj))

\* the result invokeAction builds from the value the action's main resolved to
NormalizeResponse(response) ==
  LET hasError == Truthy(Prop(response, "error"))
      headers == IF Truthy(response) THEN Prop(response, "headers") ELSE Undef
      statusCode0 == IF Truthy(response)
                     THEN (IF hasError THEN Prop(Prop(response, "error"), "statusCode")
                           ELSE Prop(response, "statusCode"))
                     ELSE NoResponseData.statusCode
      body0 == IF Truthy(response)
               THEN (IF hasError THEN Prop(Prop(response, "error"), "body")
                     ELSE Prop(response, "body"))
               ELSE NoResponseData.body
      statusCode == OrElse(statusCode0, DefaultStatusCode)
      body == OrElse(body0, Str(""))
      isError == GE(statusCode, 400)
      isObject == response.t \in {"object", "null"}
  IN Obj(Spread(IF isObject /\ ~isError THEN SpreadOf(response) ELSE EmptyObj,
                [headers |-> headers, statusCode |-> statusCode, body |-> body]))

\* a missing component reported as an invalid response
SequenceComponentMissing_AsInvalid ==
  Obj([statusCode |-> Num(400), body |-> Obj([error |-> Str("Response is not valid 'message/http'.")])])

SequenceComponentMissing ==
  Obj([statusCode |-> Num(400), body |-> Obj([error |-> Str("Sequence component does not exist.")])])

\* the loop breaking above 400 only
ShortCircuit_Above400(lastActionResponse) == GE(Prop(lastActionResponse, "statusCode"), 401)

\* the loop never breaking on a result
ShortCircuit_Never(lastActionResponse) == FALSE

\* isError of invokeSequence: the loop breaks on it
ShortCircuit(lastActionResponse) == GE(Prop(lastActionResponse, "statusCode"), 400)

\* an empty action list taken for no list
SequenceActions_EmptyIsNone(sequence) ==
  LET list == Prop(sequence, "actions")
  IN IF list.t = "chars" /\ list.c # <<>> THEN Split(list.c, ",") ELSE <<>>

\* sequence?.actions?.split(',') ?? []
SequenceActions(sequence) ==
  LET list == Prop(sequence, "actions")
  IN IF list.t = "chars" THEN Split(list.c, ",") ELSE <<>>

\* the declared inputs spread after the last response
SequenceActionParams_InputsLast(i, sequenceParams, action, lastActionResponse) ==
  IF i = 0 THEN sequenceParams
  ELSE Spread(Spread([__ow_headers |-> Get(sequenceParams, "__ow_headers"),
                      __ow_method |-> Get(sequenceParams, "__ow_method")],
                     SpreadOf(lastActionResponse)),
              SpreadOf(Prop(action, "inputs")))

\* the parameters invokeSequence passes to the action at index i (from 0)
SequenceActionParams(i, sequenceParams, action, lastActionResponse) ==
  IF i = 0 THEN sequenceParams
  ELSE Spread(Spread([__ow_headers |-> Get(sequenceParams, "__ow_headers"),
                      __ow_method |-> Get(sequenceParams, "__ow_method")],
                     SpreadOf(Prop(action, "inputs"))),
              SpreadOf(lastActionResponse))

NotFound ==
  Obj([statusCode |-> Num(404), body |-> Obj([error |-> Str("The requested resource does not exist.")])])

\* the non-web route answering like an unknown web item
NonWebUnauthorized_AsNotFound ==
  Obj([statusCode |-> Num(404), body |-> Obj([error |-> Str("The requested resource does not exist.")])])

NonWebUnauthorized ==
  Obj([statusCode |-> Num(401),
       body |-> Obj([error |-> Str("The resource requires authentication, which was not supplied with the request")])])

(***************************************************************************)
(* Inputs: the requests express hands to the two routes, what the file at  *)
(* an action's path holds when it is required, and what its main does.     *)
(***************************************************************************)
\* the request path (without the leading '/') of the given prefix and segments
PathOf(prefix, segments) == prefix \o <<"/">> \o Join(segments, "/")

ItemNames == {<<"a">>, <<"b">>, <<"c">>, <<"n">>, <<"r">>, <<"s">>, <<"m">>, <<"t">>,
              <<"u">>, <<"e">>, <<"o">>, <<"z">>}

WebPaths ==
  {PathOf(DEV_API_WEB_PREFIX, <<<<"p">>, item>>) : item \in ItemNames}
  \cup {PathOf(DEV_API_WEB_PREFIX, <<<<"p">>, <<"a">>, <<"x">>, <<"y">>>>),
        PathOf(DEV_API_WEB_PREFIX, <<<<"p">>>>),
        PathOf(DEV_API_WEB_PREFIX, <<<<"q">>, <<"a">>>>),
        PathOf(DEV_API_WEB_PREFIX, <<<<"x">>, <<"a">>>>),
        PathOf(DEV_API_WEB_PREFIX, <<<<>>>>)}

NonWebPaths ==
  {PathOf(DEV_API_PREFIX, <<<<"p">>, item>>) : item \in {<<"a">>, <<"c">>, <<"s">>, <<"u">>, <<"z">>}}
  \cup {PathOf(DEV_API_PREFIX, <<<<"x">>, <<"a">>>>),
        PathOf(DEV_API_PREFIX, <<<<"q">>>>),
        DEV_API_WEB_PREFIX}

HeaderChoices ==
  {EmptyObj,
   [authorization |-> Str("Bearer tok")],
   "x-gw-ims-org-id" :> Str("org"),
   "authorization" :> Str("Bearer tok") @@ "x-gw-ims-org-id" :> Str("org"),
   "Authorization" :> Str("Bearer tok") @@ "X-GW-IMS-ORG-ID" :> Str("org"),
   "AUTHORIZATION" :> Str("Bearer tok") @@ "X-Gw-Ims-Org-Id" :> Str("org")
     @@ "x-forwarded-for" :> Str("10.0.0.1"),
   "authorization" :> Str("") @@ "x-gw-ims-org-id" :> Str("org")}

GetRequest(path, headers) ==
  [method |-> "GET", path |-> path, headers |-> headers, query |-> EmptyObj,
   body |-> Obj(EmptyObj), isJson |-> FALSE]

Requests ==
  {GetRequest(path, headers) : path \in WebPaths \cup NonWebPaths, headers \in HeaderChoices}
  \cup {[method |-> "GET", path |-> path, headers |-> EmptyObj,
         query |-> [k |-> Str("query"), payload |-> Str("1,2")],
         body |-> Obj(EmptyObj), isJson |-> FALSE]
          : path \in {PathOf(DEV_API_WEB_PREFIX, <<<<"p">>, item>>) : item \in {<<"a">>, <<"s">>}}}
  \cup {[method |-> "POST", path |-> path, headers |-> [authorization |-> Str("Bearer tok")],
         query |-> EmptyObj, body |-> Obj([__ow_headers |-> Null]), isJson |-> TRUE]
          : path \in {PathOf(DEV_API_WEB_PREFIX, <<<<"p">>, item>>) : item \in {<<"a">>, <<"b">>, <<"s">>}}}
  \cup {[method |-> "POST", path |-> path, headers |-> [authorization |-> Str("Bearer tok")],
         query |-> [k |-> Str("query"), q |-> Str("query"), __ow_query |-> Str("forged")],
         body |-> Obj([k |-> Str("body"), __ow_method |-> Str("forged"), __ow_path |-> Str("forged")]),
         isJson |-> json]
          : path \in {PathOf(DEV_API_WEB_PREFIX, <<<<"p">>, item>>) : item \in {<<"a">>, <<"s">>}},
            json \in BOOLEAN}

\* what require(action.function) finds: a module that exports main, a module
\* without main, or a file whose load throws
Modules == {"main", "noMain", "loadThrows"}

\* the random activation ids
ActivationIds == {Str("id1"), Str("id2")}

\* what a main can do with its params: throw, or resolve to one of these
ReturnValues(params) ==
  {Undef,
   Str("text"),
   Arr(<<Num(1)>>),
   Obj([statusCode |-> Num(200), body |-> Obj([payload |-> Get(params, "k")])]),
   Obj([body |-> Str("ok"), payload |-> Num(3), headers |-> Obj("content-type" :> Str("text/plain"))]),
   Obj([error |-> Obj([statusCode |-> Num(500), body |-> Obj([error |-> Str("boom")])]),
        payload |-> Num(3), headers |-> Obj("x-error" :> Str("1"))]),
   Obj([error |-> Obj([body |-> Str("soft")]), payload |-> Num(3)]),
   Obj([error |-> Obj([statusCode |-> Num(202), body |-> Str("accepted")]),
        statusCode |-> Num(500), body |-> Str("own"), payload |-> Num(3)]),
   Obj([statusCode |-> Num(900), body |-> Str("odd")]),
   Obj([statusCode |-> Num(404), body |-> Str("gone"), payload |-> Num(3)]),
   Obj([k |-> Str("out"),
        __ow_headers |-> Obj("authorization" :> Str("forged") @@ "x-gw-ims-org-id" :> Str("forged"))])}

Outcomes(params) ==
  {[kind |-> "throw"]} \cup {[kind |-> "return", value |-> r] : r \in ReturnValues(params)}

(***************************************************************************)
(* State                                                                   *)
(***************************************************************************)
VARIABLES
  actionConfig,    \* the packages runDev hands to the two routes
  task,            \* the handling of each request: where it is suspended and its locals
  owActivationId,  \* process.env.__OW_ACTIVATION_ID
  owActionName,    \* process.env.__OW_ACTION_NAME
  requireCache,    \* require.cache: the modules loaded, each with the file version it was loaded from
  disk,            \* the version (number of edits) of each entry-point file
  dev,             \* the run of the dev command
  watch            \* the change handler of the actions watcher: its closure and the watcher

vars == <<actionConfig, task, owActivationId, owActionName, requireCache, disk, dev, watch>>

\* runDev called without the dev command
NoCommand == [pc |-> "none"]

\* no watcher was created
NoWatcher == [pc |-> "none"]

NoRequest == [method |-> "none"]

\* a request that has not arrived yet
Idle ==
  [pc |-> "idle", req |-> NoRequest, handler |-> "none", invoker |-> "none", invoked |-> FALSE,
   warned |-> FALSE,
   packageName |-> <<>>, contextItemName |-> Undef, sequenceParams |-> EmptyObj,
   actions |-> <<>>, i |-> 0, params |-> EmptyObj, returned |-> Undef,
   lastActionResponse |-> Null, response |-> Undef, log |-> <<>>]

\* the task and the process state an operation works on
World(t) == [task |-> t, id |-> owActivationId, name |-> owActionName, cache |-> requireCache]

\* the codes getReasonPhrase of http-status-codes knows; it throws on any other
ReasonPhraseCodes ==
  {100, 101, 102, 103} \cup (200 .. 207) \cup {300, 301, 302, 303, 304, 305, 307, 308}
  \cup (400 .. 424) \cup {426, 428, 429, 431, 451} \cup (500 .. 505) \cup {507, 511}

statusCodeMessageThrows(statusCode) ==
  ~(statusCode.t = "number" /\ statusCode.n \in ReasonPhraseCodes)

\* httpStatusResponse: what is written to the http response, or an exception
\* (destructuring no result, or a status code without reason phrase)
httpStatusResponse(w, actionResponse) ==
  IF actionResponse.t \in {"null", "undefined"} \/ statusCodeMessageThrows(Prop(actionResponse, "statusCode"))
  THEN [w EXCEPT !.task.pc = "threw"]
  ELSE [w EXCEPT !.task.pc = "responded",
                 !.task.response = Obj([statusCode |-> Prop(actionResponse, "statusCode"),
                                        headers |-> IF Truthy(Prop(actionResponse, "headers"))
                                                    THEN Prop(actionResponse, "headers") ELSE Undef,
                                        body |-> Prop(actionResponse, "body")])]

\* process.env.X = v stores the string of v
EnvString(v) == IF v = Undef THEN Chars(<<"u", "n", "d", "e", "f", "i", "n", "e", "d">>) ELSE v

\* obj[name] for a name that may be undefined
KeyOf(name) == EnvString(name).c

TypeError == [t |-> "throw"]

\* actionConfig[packageName]?.actions[name]
LookupAction(packageName, name) ==
  LET pkg == Get(actionConfig, packageName)
  IN IF pkg = Undef THEN Undef
     ELSE IF Prop(pkg, "actions").t # "object" THEN TypeError
     ELSE Get(Prop(pkg, "actions").o, KeyOf(name))

\* actionConfig[packageName]?.sequences?.[name]
LookupSequence(packageName, name) ==
  LET pkg == Get(actionConfig, packageName)
  IN IF Prop(pkg, "sequences").t # "object" THEN Undef
     ELSE Get(Prop(pkg, "sequences").o, KeyOf(name))

\* the cache entry kept
DeleteCache_Keep(cache, path) == cache

\* delete require.cache[path]
DeleteCache(cache, path) == {m \in cache : m.path # path}

LoadError == [kind |-> "loadThrows"]

\* require(path): the module cached for the path if there is one, else the
\* file on disk is loaded (module says what it holds): the load throws, or
\* gives a module of the file's present version
Require(cache, path, module) ==
  IF \E m \in cache : m.path = path THEN CHOOSE m \in cache : m.path = path
  ELSE IF module = "loadThrows" THEN LoadError
  ELSE [path |-> path, version |-> disk[path], kind |-> module]

\* the auth check made after the activation id is set and the cache entry dropped
invokeAction_GateAfterLoad(w, action, contextItemName, logName, params, id, module) ==
  LET gate == AuthGate(action, params)
      path == Prop(action, "function").s
      entry == [name |-> logName, action |-> action, params |-> params, gate |-> gate,
                module |-> "none", version |-> -1, onDisk |-> -1, activationId |-> Undef,
                required |-> FALSE, called |-> FALSE, outcome |-> [kind |-> "none"], result |-> Undef]
      cache == DeleteCache(w.cache, path)
      found == Require(cache, path, module)
      loaded == IF found = LoadError THEN entry
                ELSE [entry EXCEPT !.module = found.kind, !.version = found.version,
                                   !.onDisk = disk[path], !.activationId = id, !.required = TRUE]
  IN IF gate # Undef
     THEN [w EXCEPT !.task.pc = "returned", !.task.returned = gate,
                    !.id = id, !.cache = cache,
                    !.task.log = Append(@, [entry EXCEPT !.result = gate])]
     ELSE IF found = LoadError
     THEN [w EXCEPT !.task.pc = "threw", !.id = id, !.cache = cache,
                    !.task.log = Append(@, [entry EXCEPT !.module = module, !.onDisk = disk[path],
                                                       !.activationId = id, !.required = TRUE])]
     ELSE IF found.kind = "noMain"
     THEN [w EXCEPT !.task.pc = "returned", !.task.returned = InvalidResponse,
                    !.id = id, !.cache = cache \cup {found},
                    !.task.log = Append(@, [loaded EXCEPT !.result = InvalidResponse])]
     ELSE [w EXCEPT !.task.pc = "running", !.task.params = params,
                    !.id = id, !.cache = cache \cup {found}, !.name = EnvString(contextItemName),
                    !.task.log = Append(@, [loaded EXCEPT !.called = TRUE])]

\* invokeAction up to its first suspension: the auth check, the activation
\* id, the cache entry dropped, the module required, main called
invokeAction(w, action, contextItemName, logName, params, id, module) ==
  LET gate == AuthGate(action, params)
      path == Prop(action, "function").s
      entry == [name |-> logName, action |-> action, params |-> params, gate |-> gate,
                module |-> "none", version |-> -1, onDisk |-> -1, activationId |-> Undef,
                required |-> FALSE, called |-> FALSE, outcome |-> [kind |-> "none"], result |-> Undef]
      cache == DeleteCache(w.cache, path)
      found == Require(cache, path, module)
      loaded == IF found = LoadError THEN entry
                ELSE [entry EXCEPT !.module = found.kind, !.version = found.version,
                                   !.onDisk = disk[path], !.activationId = id, !.required = TRUE]
  IN IF gate # Undef
     THEN [w EXCEPT !.task.pc = "returned", !.task.returned = gate,
                    !.task.log = Append(@, [entry EXCEPT !.result = gate])]
     ELSE IF found = LoadError
     THEN [w EXCEPT !.task.pc = "threw", !.id = id, !.cache = cache,
                    !.task.log = Append(@, [entry EXCEPT !.module = module, !.onDisk = disk[path],
                                                       !.activationId = id, !.required = TRUE])]
     ELSE IF found.kind = "noMain"
     THEN [w EXCEPT !.task.pc = "returned", !.task.returned = InvalidResponse,
                    !.id = id, !.cache = cache \cup {found},
                    !.task.log = Append(@, [loaded EXCEPT !.result = InvalidResponse])]
     ELSE [w EXCEPT !.task.pc = "running", !.task.params = params,
                    !.id = id, !.cache = cache \cup {found}, !.name = EnvString(contextItemName),
                    !.task.log = Append(@, [loaded EXCEPT !.called = TRUE])]

\* the loop of invokeSequence from index i (from 0) up to the next suspension;
\* when the loop is over the value it returns goes to httpStatusResponse
invokeSequence(w, i, lastActionResponse, id, module) ==
  LET t == w.task
      actionName == Trim(t.actions[i + 1])
      action == LookupAction(t.packageName, Chars(actionName))
      actionParams == SequenceActionParams(i, t.sequenceParams, action, lastActionResponse)
      at == [w EXCEPT !.task.i = i, !.task.lastActionResponse = lastActionResponse]
  IN IF i >= Len(t.actions) THEN httpStatusResponse(at, lastActionResponse)
     ELSE IF action = TypeError THEN [at EXCEPT !.task.pc = "threw"]
     ELSE IF Truthy(action) THEN invokeAction(at, action, Undef, actionName, actionParams, id, module)
     ELSE httpStatusResponse([at EXCEPT !.task.lastActionResponse = SequenceComponentMissing],
                             SequenceComponentMissing)

(***************************************************************************)
(* The routes of the express app, in registration order                    *)
(***************************************************************************)
WebRoute(path) == StartsWith(path, DEV_API_WEB_PREFIX \o <<"/">>)
NonWebRoute(path) == ~WebRoute(path) /\ StartsWith(path, DEV_API_PREFIX \o <<"/">>)

\* req.params[0]: what the * of the route matched
RouteParam(path, prefix) == SubSeq(path, Len(prefix) + 2, Len(path))

\* the process when the server has started
Started ==
  /\ owActivationId = Undef
  /\ owActionName = Undef
  /\ requireCache = {}
  /\ disk = [path \in FilePaths |-> 0]

Init ==
  /\ actionConfig = ManifestPackages
  /\ task = [s \in {1} |-> Idle]
  /\ Started
  /\ dev = NoCommand
  /\ watch = NoWatcher

Commit(s, w) ==
  /\ task' = [task EXCEPT ![s] = w.task]
  /\ owActivationId' = w.id
  /\ owActionName' = w.name
  /\ requireCache' = w.cache
  /\ UNCHANGED <<actionConfig, disk, dev, watch>>

\* serveWebAction, up to the first suspension of the invoker it calls
serveWebAction(s, req, id, module) ==
  /\ task[s].pc = "idle"
  /\ WebRoute(req.path)
  /\ LET url == RouteParam(req.path, DEV_API_WEB_PREFIX)
         parts == Split(url, "/")
         packageName == parts[1]
         contextItemName == IF Len(parts) >= 2 THEN Chars(parts[2]) ELSE Undef
         restofPath == SubSeq(parts, 3, Len(parts))
         action == LookupAction(packageName, contextItemName)
         sequence == LookupSequence(packageName, contextItemName)
         owPath == Join(restofPath, "/")
         contextItemParams ==
           Spread(createActionParametersFromRequest(req, Prop(action, "inputs")),
                  [__ow_path |-> Chars(owPath)])
         invoker == IF Truthy(sequence) THEN "invokeSequence"
                    ELSE IF Truthy(action) THEN "invokeAction" ELSE "none"
         contextItem == IF Truthy(sequence) THEN sequence ELSE action
         t == [Idle EXCEPT !.req = req, !.handler = "serveWebAction", !.invoker = invoker,
                           !.packageName = packageName, !.contextItemName = contextItemName,
                           !.sequenceParams = contextItemParams]
         w == World(t)
         \* the invoker is called
         called == [w EXCEPT !.task.invoked = TRUE,
                             !.task.warned = isRawWebAction(contextItem),
                             !.task.actions = IF invoker = "invokeSequence"
                                              THEN SequenceActions(sequence) ELSE <<>>]
     IN IF action = TypeError THEN Commit(s, [w EXCEPT !.task.pc = "threw", !.task.invoker = "none"])
        ELSE IF invoker = "none" THEN Commit(s, httpStatusResponse(w, NotFound))
        ELSE IF ~isWebAction(contextItem) THEN Commit(s, httpStatusResponse(w, NotFound))
        ELSE IF invoker = "invokeSequence" THEN Commit(s, invokeSequence(called, 0, Null, id, module))
        ELSE Commit(s, invokeAction(called, action, contextItemName, KeyOf(contextItemName), contextItemParams, id, module))

\* serveNonWebAction
serveNonWebAction(s, req) ==
  /\ task[s].pc = "idle"
  /\ NonWebRoute(req.path)
  /\ LET t == [Idle EXCEPT !.req = req, !.handler = "serveNonWebAction"]
     IN Commit(s, httpStatusResponse(World(t), NonWebUnauthorized))

\* the promise of main settles and invokeAction runs on to its return
ActionSettles(s, outcome) ==
  /\ task[s].pc = "running"
  /\ outcome \in Outcomes(task[s].params)
  /\ LET result == IF outcome.kind = "throw" THEN InvalidResponse ELSE NormalizeResponse(outcome.value)
         n == Len(task[s].log)
     IN /\ task' = [task EXCEPT ![s].pc = "returned", ![s].returned = result,
                                ![s].log[n].outcome = outcome, ![s].log[n].result = result]
        /\ owActionName' = IF outcome.kind = "throw" THEN owActionName ELSE Undef
  /\ UNCHANGED <<actionConfig, owActivationId, requireCache, disk, dev, watch>>

\* the caller awaiting invokeAction resumes: serveWebAction answers, or the
\* loop of invokeSequence goes on with the next action
Resume(s, id, module) ==
  /\ task[s].pc = "returned"
  /\ LET t == task[s]
         w == World(t)
         isError == ShortCircuit(t.returned)
     IN IF t.invoker = "invokeAction" THEN Commit(s, httpStatusResponse(w, t.returned))
        ELSE IF isError
        THEN Commit(s, httpStatusResponse([w EXCEPT !.task.lastActionResponse = t.returned], t.returned))
        ELSE Commit(s, invokeSequence(w, t.i + 1, t.returned, id, module))

Next ==
  \/ \E s \in DOMAIN task, req \in Requests, id \in ActivationIds, module \in Modules :
       serveWebAction(s, req, id, module)
  \/ \E s \in DOMAIN task, req \in Requests : serveNonWebAction(s, req)
  \/ \E s \in DOMAIN task : \E outcome \in Outcomes(task[s].params) : ActionSettles(s, outcome)
  \/ \E s \in DOMAIN task, id \in ActivationIds, module \in Modules : Resume(s, id, module)

Spec == Init /\ [][Next]_vars

(***************************************************************************)
(* The server started for a manifest whose package p declares one item x,  *)
(* an action or a sequence, with every combination of the web field and    *)
(* the web-export annotation                                               *)
(***************************************************************************)
\* the values of the web field and of the web-export annotation (Undef: absent)
WebValues ==
  {Undef, Bool(TRUE), Str("true"), Str("yes"), Str("raw"), Bool(FALSE), Str("false"), Str("no"),
   Str("RAW")}

\* absent annotations, annotations without web-export, annotations with it
AnnotationChoices ==
  {Undef, Obj(EmptyObj)} \cup {Obj("web-export" :> v) : v \in WebValues \ {Undef}}

\* the item of the given fields with that web field and those annotations
ItemOf(fields, webValue, annotations) ==
  Obj(Spread(Spread(fields, IF webValue = Undef THEN EmptyObj ELSE [web |-> webValue]),
             IF annotations = Undef THEN EmptyObj ELSE [annotations |-> annotations]))

ItemManifests ==
  {<<"p">> :> Obj([actions |-> Obj(<<"x">> :> ItemOf([function |-> Str("x.js")], webValue, annotations))])
     : webValue \in WebValues, annotations \in AnnotationChoices}
  \cup
  {<<"p">> :> Obj([actions |-> Obj(<<"a">> :> ActionA),
                  sequences |-> Obj(<<"x">> :> ItemOf([actions |-> Chars(<<"a">>)], webValue, annotations))])
     : webValue \in WebValues, annotations \in AnnotationChoices}

\* the requests for the item x, on the web route and on the other route
ItemRequests ==
  {GetRequest(PathOf(DEV_API_WEB_PREFIX, <<<<"p">>, <<"x">>>>), EmptyObj),
   GetRequest(PathOf(DEV_API_PREFIX, <<<<"p">>, <<"x">>>>), EmptyObj)}

InitItems ==
  /\ actionConfig \in ItemManifests
  /\ task = [s \in {1} |-> Idle]
  /\ Started
  /\ dev = NoCommand
  /\ watch = NoWatcher

NextItems ==
  \/ \E s \in DOMAIN task, req \in ItemRequests, id \in ActivationIds, module \in Modules :
       serveWebAction(s, req, id, module)
  \/ \E s \in DOMAIN task, req \in ItemRequests : serveNonWebAction(s, req)
  \/ \E s \in DOMAIN task : \E outcome \in Outcomes(task[s].params) : ActionSettles(s, outcome)
  \/ \E s \in DOMAIN task, id \in ActivationIds, module \in Modules : Resume(s, id, module)

SpecItems == InitItems /\ [][NextItems]_vars

(***************************************************************************)
(* Two requests in flight while the developer edits entry-point files      *)
(***************************************************************************)
\* how often a file is edited
MaxEdits == 2

\* the files the developer edits
EditedPaths == {"a.js"}

\* the developer saves a new version of an entry-point file
EditFile(path) ==
  /\ disk[path] < MaxEdits
  /\ disk' = [disk EXCEPT ![path] = @ + 1]
  /\ UNCHANGED <<actionConfig, task, owActivationId, owActionName, requireCache, dev, watch>>

ReloadRequests == {GetRequest(PathOf(DEV_API_WEB_PREFIX, <<<<"p">>, <<"a">>>>), EmptyObj)}

InitReload ==
  /\ actionConfig = ManifestPackages
  /\ task = [s \in {1, 2} |-> Idle]
  /\ Started
  /\ dev = NoCommand
  /\ watch = NoWatcher

NextReload ==
  \/ \E s \in DOMAIN task, req \in ReloadRequests, id \in ActivationIds, module \in Modules :
       serveWebAction(s, req, id, module)
  \/ \E s \in DOMAIN task : \E outcome \in Outcomes(task[s].params) : ActionSettles(s, outcome)
  \/ \E s \in DOMAIN task, id \in ActivationIds, module \in Modules : Resume(s, id, module)
  \/ \E path \in EditedPaths : EditFile(path)

SpecReload == InitReload /\ [][NextReload]_vars

(***************************************************************************)
(* The dev command: Dev.run picks the extension to run, verifies its       *)
(* manifest and starts the server through runOneExtensionPoint and runDev  *)
(***************************************************************************)
\* the order in which the manifests of the model list their keys
\* (Object.entries follows the order of insertion)
KeyOrder == << <<"p">>, <<"s">>, <<"t">> >>

\* Object.entries(o), as the keys in order
Entries(o) == SelectSeq(KeyOrder, LAMBDA k : k \in DOMAIN o)

RECURSIVE Flatten(_)
Flatten(seqs) == IF seqs = <<>> THEN <<>> ELSE Head(seqs) \o Flatten(Tail(seqs))

\* a manifest that is not checked
verifyActionConfig_NoCheck(config) == <<>>

\* verifyActionConfig: the calls of this.error it makes, in order, were
\* this.error to return; this.error throws, so the first one ends it
verifyActionConfig(config) ==
  LET packages == config.manifest.full.packages
      ofSequence(pkg, sequenceName) ==
        LET sequences == SpreadOf(OrElse(Prop(pkg, "sequences"), Obj(EmptyObj)))
            actions == SpreadOf(OrElse(Prop(pkg, "actions"), Obj(EmptyObj)))
            sequenceActions == SequenceActions(sequences[sequenceName])
            names == [i \in DOMAIN sequenceActions |-> Trim(sequenceActions[i])]
            absent == SelectSeq(names, LAMBDA actionName : ~Truthy(Get(actions, actionName)))
        IN (IF Len(sequenceActions) = 0
            THEN <<[kind |-> "notProvided", sequence |-> sequenceName]>> ELSE <<>>)
           \o [i \in DOMAIN absent |->
                 [kind |-> "notExist", action |-> absent[i], sequence |-> sequenceName]]
      ofPackage(pkg) ==
        LET sequenceNames == Entries(SpreadOf(OrElse(Prop(pkg, "sequences"), Obj(EmptyObj))))
        IN Flatten([i \in DOMAIN sequenceNames |-> ofSequence(pkg, sequenceNames[i])])
      packageNames == Entries(packages)
  IN Flatten([i \in DOMAIN packageNames |-> ofPackage(packages[packageNames[i]])])

\* the manifests of the apps the command is run in: package p with or
\* without actions, with no sequence, with s, or with s and t
DevSequenceLists ==
  {Undef, Chars(<<>>), Chars(<<"a">>), Chars(<<"a", ",", " ", "b">>),
   Chars(<<"a", ",", "z">>), Chars(<<"z", " ", ",", "a">>)}

DevSequence(list) == Obj(IF list = Undef THEN EmptyObj ELSE [actions |-> list])

DevSequenceChoices ==
  {Undef}
  \cup {Obj(<<"s">> :> DevSequence(list)) : list \in DevSequenceLists}
  \cup {Obj(<<"s">> :> DevSequence(list) @@ <<"t">> :> DevSequence(other))
          : list \in DevSequenceLists, other \in {Chars(<<"b">>), Chars(<<"y">>)}}

DevActionChoices ==
  {Undef, Obj(<<"a">> :> ActionA), Obj(<<"a">> :> ActionA @@ <<"b">> :> ActionB)}

DevPackages ==
  {<<"p">> :> Obj(Spread(IF actions = Undef THEN EmptyObj ELSE [actions |-> actions],
                         IF sequences = Undef THEN EmptyObj ELSE [sequences |-> sequences]))
     : actions \in DevActionChoices, sequences \in DevSequenceChoices}

DevConfigs ==
  {[manifest |-> [full |-> [packages |-> packages]],
    app |-> [hasBackend |-> hasBackend, hasFrontend |-> hasFrontend]]
     : packages \in DevPackages, hasBackend \in BOOLEAN, hasFrontend \in BOOLEAN}

\* an extension whose manifest is in order
OtherConfig ==
  [manifest |-> [full |-> [packages |-> <<"p">> :> Obj([actions |-> Obj(<<"a">> :> ActionA)])]],
   app |-> [hasBackend |-> TRUE, hasFrontend |-> TRUE]]

\* Object.entries(runConfigs): one extension, or two
DevEntries ==
  {<< <<"application", config>> >> : config \in DevConfigs}
  \cup {<< <<"ext1", OtherConfig>>, <<"ext2", config>> >> : config \in DevConfigs}

\* flags.extension: not given, or the one name given, parsed to [name]
DevExtensionFlags == {Undef, Arr(<<"application">>), Arr(<<"ext2">>), Arr(<<"nope">>)}

\* the command before run is called
DevStart(entries, extension) ==
  [pc |-> "start", entries |-> entries, extension |-> extension, name |-> "none",
   verified |-> FALSE, error |-> [kind |-> "none"]]

\* entries.find(([entryName]) => entryName === extName)
FindEntry(entries, extName) ==
  LET found == SelectSeq(entries, LAMBDA e : e[1] = extName)
  IN IF found = <<>> THEN Undef ELSE Head(found)

\* the entry Dev.run selects, after the forEach over flags.extension
RECURSIVE SelectEntry(_, _, _)
SelectEntry(entries, names, entry) ==
  IF names = <<>> THEN entry
  ELSE SelectEntry(entries, Tail(names), FindEntry(entries, Head(names)))

\* Dev.run up to the end of verifyActionConfig
run ==
  /\ dev.pc = "start"
  /\ LET entries == dev.entries
         entry == IF dev.extension # Undef THEN SelectEntry(entries, dev.extension.a, entries[1])
                  ELSE entries[1]
         errors == verifyActionConfig(entry[2])
     IN dev' = IF dev.extension # Undef /\ entry = Undef
               THEN [dev EXCEPT !.pc = "failed", !.error = [kind |-> "extensionNotFound"]]
               ELSE IF dev.extension = Undef /\ Len(entries) > 1
               THEN [dev EXCEPT !.pc = "failed", !.error = [kind |-> "multipleExtensions"]]
               ELSE IF errors # <<>>
               THEN [dev EXCEPT !.pc = "failed", !.name = entry[1], !.error = Head(errors)]
               ELSE [dev EXCEPT !.pc = "verified", !.name = entry[1], !.verified = TRUE]
  /\ UNCHANGED <<actionConfig, task, owActivationId, owActionName, requireCache, disk, watch>>

\* the config of the extension that was selected
DevConfig == FindEntry(dev.entries, dev.name)[2]

\* runOneExtensionPoint: nothing to run, or no certificates, or runDev
\* starts the server for the packages of the manifest
runOneExtensionPoint(certificates) ==
  /\ dev.pc = "verified"
  /\ LET config == DevConfig
     IN IF ~config.app.hasBackend /\ ~config.app.hasFrontend
        THEN /\ dev' = [dev EXCEPT !.pc = "failed", !.error = [kind |-> "nothingToRun"]]
             /\ UNCHANGED actionConfig
        ELSE IF ~certificates
        THEN /\ dev' = [dev EXCEPT !.pc = "failed", !.error = [kind |-> "certificates"]]
             /\ UNCHANGED actionConfig
        ELSE /\ dev' = [dev EXCEPT !.pc = "serving"]
             /\ actionConfig' = config.manifest.full.packages
  /\ UNCHANGED <<task, owActivationId, owActionName, requireCache, disk, watch>>

\* no server yet: no packages are served
NotServing == <<>>

InitDev ==
  /\ actionConfig = NotServing
  /\ task = [s \in {1} |-> Idle]
  /\ Started
  /\ dev \in {DevStart(entries, extension) : entries \in DevEntries, extension \in DevExtensionFlags}
  /\ watch = NoWatcher

NextDev ==
  \/ run
  \/ \E certificates \in BOOLEAN : runOneExtensionPoint(certificates)

SpecDev == InitDev /\ [][NextDev]_vars

(***************************************************************************)
(* Cleanup: the registry of cleanup functions and its SIGINT listener      *)
(***************************************************************************)
\* the runs of Cleanup.run started, by SIGINT or by a direct call
MaxRuns == 2

\* the functions the command can register
CleanupFuncs == {"server", "watcher"}

\* new Cleanup(): this.resources = []; registered, calls, runs and exit
\* record what was added, which functions were invoked in which order, the
\* runs started and process.exit
NewCleanup ==
  [pc |-> "cleanup", resources |-> <<>>, listening |-> FALSE, registered |-> <<>>,
   calls |-> <<>>, runs |-> <<>>, exit |-> -1]

\* Cleanup.add: the function is pushed (the command adds its functions
\* before it calls wait and before any run)
add(func) ==
  /\ dev.pc = "cleanup"
  /\ ~dev.listening
  /\ dev.runs = <<>>
  /\ \A i \in DOMAIN dev.registered : dev.registered[i] # func
  /\ dev' = [dev EXCEPT !.resources = Append(@, func), !.registered = Append(@, func)]
  /\ UNCHANGED <<actionConfig, task, owActivationId, owActionName, requireCache, disk, watch>>

\* Cleanup.wait: process.on('SIGINT', ...)
wait ==
  /\ dev.pc = "cleanup"
  /\ ~dev.listening
  /\ dev' = [dev EXCEPT !.listening = TRUE]
  /\ UNCHANGED <<actionConfig, task, owActivationId, owActionName, requireCache, disk, watch>>

\* the exit code after a run the SIGINT listener awaited: process.exit(0)
\* when it returned, process.exit(1) when it threw; none for a direct call
ExitAfter(d, signal, code) == IF signal /\ d.exit = -1 THEN code ELSE d.exit

\* Cleanup.run up to its first suspension: the loop over this.resources
\* calls the first function and awaits it, or ends at once for an empty list
StartRun(signal) ==
  /\ dev.pc = "cleanup"
  /\ dev.exit = -1
  /\ signal => dev.listening
  /\ Len(dev.runs) < MaxRuns
  /\ LET arr == dev.resources
     IN dev' = IF arr = <<>>
               THEN [dev EXCEPT !.resources = <<>>,
                                !.runs = Append(@, [arr |-> arr, idx |-> 0, pc |-> "done", signal |-> signal]),
                                !.exit = ExitAfter(dev, signal, 0)]
               ELSE [dev EXCEPT !.calls = Append(@, arr[1]),
                                !.runs = Append(@, [arr |-> arr, idx |-> 1, pc |-> "awaiting", signal |-> signal])]
  /\ UNCHANGED <<actionConfig, task, owActivationId, owActionName, requireCache, disk, watch>>

\* the function a run awaits settles: the loop goes on with the next element
\* of the array it iterates, or ends with this.resources = []; a function
\* that throws ends the run with the registry as it is
FuncSettles(r, ok) ==
  /\ dev.pc = "cleanup"
  /\ dev.exit = -1
  /\ r \in DOMAIN dev.runs
  /\ dev.runs[r].pc = "awaiting"
  /\ LET this == dev.runs[r]
     IN dev' = IF ~ok
               THEN [dev EXCEPT !.runs[r].pc = "failed", !.exit = ExitAfter(dev, this.signal, 1)]
               ELSE IF this.idx < Len(this.arr)
               THEN [dev EXCEPT !.calls = Append(@, this.arr[this.idx + 1]), !.runs[r].idx = @ + 1]
               ELSE [dev EXCEPT !.resources = <<>>, !.runs[r].pc = "done",
                                !.exit = ExitAfter(dev, this.signal, 0)]
  /\ UNCHANGED <<actionConfig, task, owActivationId, owActionName, requireCache, disk, watch>>

InitCleanup ==
  /\ actionConfig = ManifestPackages
  /\ task = [s \in {1} |-> Idle]
  /\ Started
  /\ dev = NewCleanup
  /\ watch = NoWatcher

NextCleanup ==
  \/ \E func \in CleanupFuncs : add(func)
  \/ wait
  \/ \E signal \in BOOLEAN : StartRun(signal)
  \/ \E r \in 1 .. MaxRuns, ok \in BOOLEAN : FuncSettles(r, ok)

SpecCleanup == InitCleanup /\ [][NextCleanup]_vars

(***************************************************************************)
(* Objects shared between the steps of a sequence                          *)
(***************************************************************************)
\* requests for the web sequence s ('a, b'), with and without the auth headers
AliasRequests ==
  {GetRequest(PathOf(DEV_API_WEB_PREFIX, <<<<"p">>, item>>), headers) :
     item \in {<<"s">>},
     headers \in {EmptyObj, "authorization" :> Str("Bearer tok") @@ "x-gw-ims-org-id" :> Str("org")}}

\* whether params.__ow_headers of the running invocation is the object
\* sequenceParams.__ow_headers refers to: it is for the params serveWebAction
\* built (step 0 gets sequenceParams itself) and for a later step unless the
\* action's inputs or the last response gave a __ow_headers of their own
SharesHeaders(t) ==
  \/ t.i = 0
  \/ /\ "__ow_headers" \notin DOMAIN SpreadOf(Prop(t.log[Len(t.log)].action, "inputs"))
     /\ "__ow_headers" \notin DOMAIN SpreadOf(t.lastActionResponse)

\* params.__ow_headers.authorization = 'mutated' and the same for x-gw-ims-org-id
MutateHeaders(params) ==
  [params EXCEPT !["__ow_headers"] =
     Obj(Spread(@.o, "authorization" :> Str("mutated") @@ "x-gw-ims-org-id" :> Str("mutated")))]

\* the running main assigns to properties of params.__ow_headers: the object
\* changes for every holder of a reference to it
ActionMutates(s) ==
  /\ task[s].pc = "running"
  /\ Get(task[s].params, "__ow_headers").t = "object"
  /\ Prop(Get(task[s].params, "__ow_headers"), "authorization") # Str("mutated")
  /\ task' = [task EXCEPT ![s].params = MutateHeaders(@),
                          ![s].sequenceParams = IF SharesHeaders(task[s]) THEN MutateHeaders(@) ELSE @]
  /\ UNCHANGED <<actionConfig, owActivationId, owActionName, requireCache, disk, dev, watch>>

NextAlias ==
  \/ \E s \in DOMAIN task, req \in AliasRequests, id \in ActivationIds, module \in Modules :
       serveWebAction(s, req, id, module)
  \/ \E s \in DOMAIN task : ActionMutates(s)
  \/ \E s \in DOMAIN task : \E outcome \in Outcomes(task[s].params) : ActionSettles(s, outcome)
  \/ \E s \in DOMAIN task, id \in ActivationIds, module \in Modules : Resume(s, id, module)

SpecAlias == Init /\ [][NextAlias]_vars

(***************************************************************************)
(* The actions watcher: createWatcher, createChangeHandler, Queue          *)
(***************************************************************************)
\* the change events delivered to one watcher
MaxEvents == 3

\* the characters of a file path
PathChars(path) ==
  CASE path = "a.js" -> <<"a", ".", "j", "s">>
    [] path = "b.js" -> <<"b", ".", "j", "s">>
    [] path = "c.js" -> <<"c", ".", "j", "s">>
    [] path = "n.js" -> <<"n", ".", "j", "s">>
    [] path = "r.js" -> <<"r", ".", "j", "s">>
    [] path = "x.js" -> <<"x", ".", "j", "s">>
    [] path = "js" -> <<"j", "s">>

\* the paths chokidar reports a change of: two entry points, a file that is
\* no action's entry point, and a path every entry point's path includes
ChangedPaths == {"a.js", "b.js", "x.js", "js"}

\* String.prototype.includes
Includes(hay, needle) ==
  \E i \in 0 .. Len(hay) - Len(needle) : SubSeq(hay, i + 1, i + Len(needle)) = needle

\* getActionNameFromPath: the names of all actions whose function includes the path
getActionNameFromPath(filePath) ==
  UNION {IF Truthy(Prop(ManifestPackages[pkg], "actions"))
         THEN {actionName \in DOMAIN Prop(ManifestPackages[pkg], "actions").o :
                 Includes(PathChars(Prop(Prop(ManifestPackages[pkg], "actions").o[actionName], "function").s),
                          PathChars(filePath.s))}
         ELSE {} : pkg \in DOMAIN ManifestPackages}

\* an element that is already waiting is not added again
enqueue_Coalesce(queue, element) ==
  IF \E i \in DOMAIN queue : queue[i] = element THEN queue ELSE Append(queue, element)

\* Queue.enqueue
enqueue(queue, element) == Append(queue, element)

\* the element taken from the end
dequeue_LIFO(queue) ==
  IF queue = <<>> THEN [element |-> Undef, queue |-> queue]
  ELSE [element |-> queue[Len(queue)], queue |-> SubSeq(queue, 1, Len(queue) - 1)]

\* Queue.dequeue: Array.prototype.shift, the element and the queue left
dequeue(queue) ==
  IF queue = <<>> THEN [element |-> Undef, queue |-> queue]
  ELSE [element |-> Head(queue), queue |-> Tail(queue)]

\* the closure of createChangeHandler and the watcher when createWatcher returns
Watching ==
  [pc |-> "idle", buildInProgress |-> FALSE, queue |-> <<>>, current |-> Undef,
   running |-> 0, closed |-> FALSE, events |-> <<>>, processed |-> <<>>,
   enqueued |-> 0, dequeued |-> 0]

\* processChange up to await buildActions(...), or to its end for a file
\* that is no action's
processChange(w, filePath) ==
  LET filterActions == getActionNameFromPath(filePath)
  IN IF filterActions = {}
     THEN [w EXCEPT !.processed = Append(@, [path |-> filePath, built |-> FALSE, ok |-> TRUE])]
     ELSE [w EXCEPT !.pc = "building", !.current = filePath, !.running = @ + 1]

\* the loop over the queue after a processChange has ended, up to the next
\* await buildActions(...) or to buildInProgress = false
RECURSIVE processQueue(_)
processQueue(w) ==
  LET d == dequeue(w.queue)
  IN IF ~Truthy(d.element)
     THEN [w EXCEPT !.queue = d.queue, !.buildInProgress = FALSE, !.pc = "idle", !.current = Undef]
     \* next is bound to the handler's state after processChange(d.element)
     ELSE CHOOSE r \in {IF next.pc = "building" THEN next ELSE processQueue(next) :
                          next \in {processChange([w EXCEPT !.queue = d.queue, !.dequeued = @ + 1],
                                                  d.element)}} : TRUE

\* no build is taken to be in progress
InProgress_Never(w) == FALSE

\* if (buildInProgress)
InProgress(w) == w.buildInProgress

\* the handler createChangeHandler returns, up to its first suspension
onChangeHandler(w, filePath) ==
  IF InProgress(w) THEN [w EXCEPT !.queue = enqueue(@, filePath), !.enqueued = @ + 1]
  ELSE LET first == processChange([w EXCEPT !.buildInProgress = TRUE], filePath)
       IN IF first.pc = "building" THEN first ELSE processQueue(first)

\* watcher.on('change', onChangeHandler): chokidar reports a change
Change(filePath) ==
  /\ watch.pc # "none"
  /\ ~watch.closed
  /\ Len(watch.events) < MaxEvents
  /\ watch' = onChangeHandler([watch EXCEPT !.events = Append(@, filePath)], filePath)
  /\ UNCHANGED <<actionConfig, task, owActivationId, owActionName, requireCache, disk, dev>>

\* after a failed build the waiting changes are dropped
BuildSettles_DropsQueue(ok) ==
  /\ watch.pc = "building"
  /\ LET done == [watch EXCEPT !.pc = "idle", !.current = Undef, !.running = @ - 1,
                               !.closed = @ \/ ~ok,
                               !.processed = Append(@, [path |-> watch.current, built |-> TRUE, ok |-> ok])]
     IN watch' = IF ok THEN processQueue(done)
                 ELSE [done EXCEPT !.queue = <<>>, !.buildInProgress = FALSE]
  /\ UNCHANGED <<actionConfig, task, owActivationId, owActionName, requireCache, disk, dev>>

\* the promise of buildActions settles: processChange ends (closing the
\* watcher when the build failed) and the handler goes on with the queue
BuildSettles(ok) ==
  /\ watch.pc = "building"
  /\ LET done == [watch EXCEPT !.pc = "idle", !.current = Undef, !.running = @ - 1,
                               !.closed = @ \/ ~ok,
                               !.processed = Append(@, [path |-> watch.current, built |-> TRUE, ok |-> ok])]
     IN watch' = processQueue(done)
  /\ UNCHANGED <<actionConfig, task, owActivationId, owActionName, requireCache, disk, dev>>

\* watcherCleanup: the watcher is closed
watcherCleanup ==
  /\ watch.pc # "none"
  /\ ~watch.closed
  /\ watch' = [watch EXCEPT !.closed = TRUE]
  /\ UNCHANGED <<actionConfig, task, owActivationId, owActionName, requireCache, disk, dev>>

InitWatch ==
  /\ actionConfig = ManifestPackages
  /\ task = [s \in {1} |-> Idle]
  /\ Started
  /\ dev = NoCommand
  /\ watch = Watching

NextWatch ==
  \/ \E filePath \in ChangedPaths : Change(Str(filePath))
  \/ \E ok \in BOOLEAN : BuildSettles(ok)
  \/ watcherCleanup

SpecWatch == InitWatch /\ [][NextWatch]_vars

\* the promise of buildActions rejects and, in the catch of processChange,
\* await watcher.close() rejects as well: processChange rejects, and so does
\* the handler at its await, before the loop and buildInProgress = false;
\* stillOpen says whether the watcher goes on reporting changes
CloseThrows(stillOpen) ==
  /\ watch.pc = "building"
  /\ watch' = [watch EXCEPT !.pc = "rejected", !.current = Undef, !.running = @ - 1,
                            !.closed = @ \/ ~stillOpen,
                            !.processed = Append(@, [path |-> watch.current, built |-> TRUE, ok |-> FALSE])]
  /\ UNCHANGED <<actionConfig, task, owActivationId, owActionName, requireCache, disk, dev>>

NextWatchClose ==
  \/ NextWatch
  \/ \E stillOpen \in BOOLEAN : CloseThrows(stillOpen)

SpecWatchClose == InitWatch /\ [][NextWatchClose]_vars

\* a build that has started settles
SpecWatchFair == SpecWatch /\ WF_vars(\E ok \in BOOLEAN : BuildSettles(ok))

(***************************************************************************)
(* Properties                                                              *)
(***************************************************************************)
\* the request of a task has been handled to its end
Settled(t) == t.pc \in {"responded", "threw"}

\* the package declares an action (a sequence) of that name
DeclaresAction(packageName, name) ==
  /\ packageName \in DOMAIN actionConfig
  /\ Prop(actionConfig[packageName], "actions").t = "object"
  /\ name \in DOMAIN Prop(actionConfig[packageName], "actions").o

DeclaresSequence(packageName, name) ==
  /\ packageName \in DOMAIN actionConfig
  /\ Prop(actionConfig[packageName], "sequences").t = "object"
  /\ name \in DOMAIN Prop(actionConfig[packageName], "sequences").o

\* the package and item names of a web route path
WebPackageName(path) == Split(RouteParam(path, DEV_API_WEB_PREFIX), "/")[1]
WebItemName(path) ==
  LET parts == Split(RouteParam(path, DEV_API_WEB_PREFIX), "/")
  IN IF Len(parts) >= 2 THEN parts[2] ELSE <<"u", "n", "d", "e", "f", "i", "n", "e", "d">>

\* the manifest item a web route path names: the sequence if there is one,
\* else the action, else nothing
WebItem(path) ==
  IF DeclaresSequence(WebPackageName(path), WebItemName(path))
  THEN actionConfig[WebPackageName(path)].o.sequences.o[WebItemName(path)]
  ELSE IF DeclaresAction(WebPackageName(path), WebItemName(path))
  THEN actionConfig[WebPackageName(path)].o.actions.o[WebItemName(path)]
  ELSE Undef

\* C1: every request on the web route whose package/item names resolve to
\* neither an action nor a sequence, or to an item that is not a web action,
\* is answered 404 {error: 'The requested resource does not exist.'} and no
\* action code is invoked.
C1_NotFound ==
  \A s \in DOMAIN task :
    LET t == task[s]
    IN (t.req # NoRequest /\ WebRoute(t.req.path)
        /\ (WebItem(t.req.path) = Undef \/ ~isWebAction(WebItem(t.req.path))))
       => /\ t.pc = "responded"
          /\ t.response = Obj([statusCode |-> Num(404), headers |-> Undef,
                               body |-> Obj([error |-> Str("The requested resource does not exist.")])])
          /\ t.log = <<>>

\* C2: every request that reaches the non-web route is answered 401
\* {error: 'The resource requires authentication, which was not supplied
\* with the request'}, whatever package and item it names, and no action
\* code is invoked for it.
C2_NonWebAlwaysUnauthorized ==
  \A s \in DOMAIN task :
    LET t == task[s]
    IN (t.req # NoRequest /\ NonWebRoute(t.req.path))
       => /\ t.pc = "responded"
          /\ t.response = Obj([statusCode |-> Num(401), headers |-> Undef,
                               body |-> Obj([error |-> Str("The resource requires authentication, which was not supplied with the request")])])
          /\ t.log = <<>>
          /\ owActivationId = Undef /\ requireCache = {}

\* a non-web request for an item that exists and is web exposed has been answered
C2_Witness ==
  \E s \in DOMAIN task :
    /\ task[s].pc = "responded"
    /\ task[s].req # NoRequest
    /\ task[s].req.path = PathOf(DEV_API_PREFIX, <<<<"p">>, <<"a">>>>)
    /\ isWebAction(ActionA)

\* C3: invokeAction never throws: a load that throws, a main that throws and
\* a module without main all end in the result
\* {statusCode: 400, body: {error: "Response is not valid 'message/http'."}}.
C3_InvokeActionNeverThrows ==
  \A s \in DOMAIN task :
    \A j \in DOMAIN task[s].log :
      LET e == task[s].log[j]
      IN (e.module \in {"loadThrows", "noMain"} \/ e.outcome.kind = "throw")
         => e.result = Obj([statusCode |-> Num(400),
                            body |-> Obj([error |-> Str("Response is not valid 'message/http'.")])])

\* the 1-based positions of the sequence's action list whose trimmed name is
\* no action of the package
MissingPositions(t) ==
  {j \in 1 .. Len(t.actions) : ~DeclaresAction(t.packageName, Trim(t.actions[j]))}

FirstMissing(t) == CHOOSE j \in MissingPositions(t) : \A m \in MissingPositions(t) : j <= m

\* C4: in invokeSequence, once a step has returned a status code >= 400 no
\* later action of the sequence is loaded or executed, and the sequence
\* returns that step's result.
C4_ShortCircuit ==
  \A s \in DOMAIN task :
    LET t == task[s]
    IN (t.invoked /\ t.invoker = "invokeSequence")
       => \A j \in DOMAIN t.log :
            (t.log[j].result # Undef /\ Prop(t.log[j].result, "statusCode").n >= 400)
            => /\ j = Len(t.log)
               /\ Settled(t) => t.lastActionResponse = t.log[j].result
               /\ t.pc = "responded"
                    => /\ Prop(t.response, "statusCode") = Prop(t.log[j].result, "statusCode")
                       /\ Prop(t.response, "body") = Prop(t.log[j].result, "body")

\* a sequence has returned the result of a main that threw while actions
\* were still listed after it
C4_Witness ==
  \E s \in DOMAIN task :
    LET t == task[s]
    IN /\ t.invoked /\ t.invoker = "invokeSequence" /\ t.pc = "responded"
       /\ t.log # <<>> /\ Len(t.log) < Len(t.actions)
       /\ t.log[Len(t.log)].outcome.kind = "throw"
       /\ Prop(t.response, "statusCode") = Num(400)

\* C5 as stated: whenever a sequence lists a name that (trimmed) is no action
\* of the package, invokeSequence returns exactly
\* {statusCode: 400, body: {error: 'Sequence component does not exist.'}}
\* and no action listed after the missing name executes.
C5_MissingAlwaysReported ==
  \A s \in DOMAIN task :
    LET t == task[s]
    IN (t.invoked /\ t.invoker = "invokeSequence" /\ t.pc = "responded" /\ MissingPositions(t) # {})
       => /\ t.lastActionResponse =
               Obj([statusCode |-> Num(400), body |-> Obj([error |-> Str("Sequence component does not exist.")])])
          /\ Len(t.log) < FirstMissing(t)

\* C5 amended: no action listed at or after a missing name ever executes,
\* and when the loop reaches the missing name (every action listed before it
\* returned a status < 400) invokeSequence returns exactly
\* {statusCode: 400, body: {error: 'Sequence component does not exist.'}}.
C5_MissingComponent ==
  \A s \in DOMAIN task :
    LET t == task[s]
    IN (t.invoked /\ t.invoker = "invokeSequence" /\ MissingPositions(t) # {})
       => /\ Len(t.log) < FirstMissing(t)
          /\ (/\ Settled(t)
              /\ Len(t.log) = FirstMissing(t) - 1
              /\ \A j \in DOMAIN t.log :
                   t.log[j].result # Undef /\ Prop(t.log[j].result, "statusCode").n < 400)
             => /\ t.pc = "responded"
                /\ t.lastActionResponse =
                     Obj([statusCode |-> Num(400), body |-> Obj([error |-> Str("Sequence component does not exist.")])])
                /\ t.response =
                     Obj([statusCode |-> Num(400), headers |-> Undef,
                          body |-> Obj([error |-> Str("Sequence component does not exist.")])])

\* the sequence 'a,z ,b' has run a and answered that z does not exist
C5_Witness ==
  \E s \in DOMAIN task :
    LET t == task[s]
    IN /\ t.invoked /\ t.invoker = "invokeSequence" /\ t.pc = "responded"
       /\ MissingPositions(t) = {2} /\ Len(t.log) = 1 /\ t.log[1].called
       /\ Prop(Prop(t.response, "body"), "error") = Str("Sequence component does not exist.")

\* C6: step 0 of a sequence receives the sequence's initial context; every
\* later step receives __ow_headers and __ow_method of the original context,
\* overlaid by the action's declared inputs, overlaid by all fields of the
\* previous step's result.
C6_StepParams ==
  \A s \in DOMAIN task :
    LET t == task[s]
    IN (t.invoked /\ t.invoker = "invokeSequence")
       => \A j \in DOMAIN t.log :
            LET p == t.log[j].params
                prev == t.log[j - 1].result.o
                declared == Prop(t.log[j].action, "inputs")
                inputs == IF declared.t = "object" THEN declared.o ELSE EmptyObj
            IN IF j = 1 THEN p = t.sequenceParams
               ELSE /\ DOMAIN p = DOMAIN prev \cup DOMAIN inputs \cup {"__ow_headers", "__ow_method"}
                    /\ \A k \in DOMAIN p :
                         p[k] = IF k \in DOMAIN prev THEN prev[k]
                                ELSE IF k \in DOMAIN inputs THEN inputs[k]
                                ELSE Get(t.sequenceParams, k)

\* in the sequence 'a, b', b (which declares the input k) was called with the
\* k that a returned and with the method of the original request
C6_Witness ==
  \E s \in DOMAIN task :
    LET t == task[s]
    IN /\ t.invoked /\ t.invoker = "invokeSequence" /\ Len(t.log) = 2
       /\ t.log[2].action = ActionB
       /\ Get(t.log[1].result.o, "k") = Str("out")
       /\ Get(t.log[2].params, "k") = Str("out")
       /\ Get(t.log[2].params, "j") = Str("in-b")
       /\ Get(t.log[2].params, "__ow_method") = Str("get")

\* C7: the value invokeSequence returns for a non-empty action list is the
\* result of the last step it ran: the result of the final listed action when
\* every step returned a status < 400, else the result of the first step
\* whose status is >= 400 (a missing component being a step of status 400).
C7_SequenceResult ==
  \A s \in DOMAIN task :
    LET t == task[s]
        n == Len(t.log)
        failed == {j \in DOMAIN t.log : Prop(t.log[j].result, "statusCode").n >= 400}
    IN (t.invoked /\ t.invoker = "invokeSequence" /\ t.pc = "responded" /\ t.actions # <<>>)
       => /\ (failed = {} /\ MissingPositions(t) = {})
               => /\ n = Len(t.actions)
                  /\ t.log[n].name = Trim(t.actions[n])
                  /\ t.lastActionResponse = t.log[n].result
          /\ failed # {}
               => /\ t.lastActionResponse = t.log[CHOOSE j \in failed : \A m \in failed : j <= m].result
                  /\ failed = {n}
          /\ (failed = {} /\ MissingPositions(t) # {})
               => /\ n = FirstMissing(t) - 1
                  /\ Prop(t.lastActionResponse, "statusCode") = Num(400)
          /\ Prop(t.response, "statusCode") = Prop(t.lastActionResponse, "statusCode")
          /\ Prop(t.response, "body") = Prop(t.lastActionResponse, "body")

\* the sequence 'a, b' has run both actions with status < 400 and answered
\* with the result of b
C7_Witness ==
  \E s \in DOMAIN task :
    LET t == task[s]
    IN /\ t.invoked /\ t.invoker = "invokeSequence" /\ t.pc = "responded"
       /\ Len(t.actions) = 2 /\ Len(t.log) = 2
       /\ t.log[1].called /\ t.log[2].called
       /\ t.log[1].result # t.log[2].result
       /\ Prop(t.log[2].result, "statusCode") = Num(200)
       /\ t.lastActionResponse = t.log[2].result

\* the headers an invocation's params carry under the lower-cased name, with
\* a value that is not empty
CarriesHeader(params, name) ==
  LET headers == SpreadOf(Coalesce(Get(params, "__ow_headers"), Obj(EmptyObj)))
  IN \E h \in DOMAIN headers : ToLowerCase(h) = name /\ Truthy(headers[h])

AnnotatedRequireAuth(action) ==
  Truthy(Prop(Prop(action, "annotations"), "require-adobe-auth"))

\* C8: for an action with 'require-adobe-auth' the headers are checked in the
\* order authorization, x-gw-ims-org-id (a header without value counts as
\* missing); the result for the first missing one is the 401 naming it and no
\* code is loaded; lacking authorization always yields the 'missing
\* authorization header' result, also when x-gw-ims-org-id is missing too.
C8_AuthOrder ==
  \A s \in DOMAIN task :
    \A j \in DOMAIN task[s].log :
      LET e == task[s].log[j]
      IN AnnotatedRequireAuth(e.action)
         => /\ ~CarriesHeader(e.params, "authorization")
                 => /\ e.result = Obj([statusCode |-> Num(401),
                          body |-> Obj([error |-> Str("cannot authorize request, reason: missing authorization header")])])
                    /\ ~e.required /\ ~e.called
            /\ (CarriesHeader(e.params, "authorization") /\ ~CarriesHeader(e.params, "x-gw-ims-org-id"))
                 => /\ e.result = Obj([statusCode |-> Num(401),
                          body |-> Obj([error |-> Str("cannot authorize request, reason: missing x-gw-ims-org-id header")])])
                    /\ ~e.required /\ ~e.called

\* an action with 'require-adobe-auth' was invoked without either header and
\* the request answered 401 'missing authorization header'
C8_Witness ==
  \E s \in DOMAIN task :
    LET t == task[s]
    IN /\ t.pc = "responded" /\ t.invoked /\ t.invoker = "invokeAction" /\ Len(t.log) = 1
       /\ AnnotatedRequireAuth(t.log[1].action)
       /\ ~CarriesHeader(t.log[1].params, "authorization")
       /\ ~CarriesHeader(t.log[1].params, "x-gw-ims-org-id")
       /\ Prop(t.response, "statusCode") = Num(401)

\* C9: for an action with 'require-adobe-auth', whenever the params carry both
\* an authorization and an x-gw-ims-org-id header (each with a value that is
\* not empty), in any letter case of the names, the gate passes: the module
\* is loaded and its main is called.
C9_CaseInsensitive ==
  \A s \in DOMAIN task :
    \A j \in DOMAIN task[s].log :
      LET e == task[s].log[j]
      IN (/\ AnnotatedRequireAuth(e.action)
          /\ CarriesHeader(e.params, "authorization")
          /\ CarriesHeader(e.params, "x-gw-ims-org-id"))
         => /\ e.gate = Undef
            /\ e.required
            /\ e.module = "main" => e.called
            /\ Prop(e.result, "statusCode") # Num(401)

\* an action with 'require-adobe-auth' ran for a request whose header names
\* are upper case
C9_Witness ==
  \E s \in DOMAIN task :
    LET t == task[s]
    IN /\ t.log # <<>> /\ AnnotatedRequireAuth(t.log[1].action) /\ t.log[1].called
       /\ "AUTHORIZATION" \in DOMAIN t.req.headers
       /\ "authorization" \notin DOMAIN t.req.headers

\* C10: for an action without a (truthy) 'require-adobe-auth' annotation the
\* gate always passes, whatever headers the params carry: the module is
\* loaded and the result is never the gate's 401.
C10_NoAnnotationPasses ==
  \A s \in DOMAIN task :
    \A j \in DOMAIN task[s].log :
      LET e == task[s].log[j]
      IN ~AnnotatedRequireAuth(e.action)
         => /\ e.gate = Undef
            /\ e.required
            /\ e.module = "main" => e.called
            /\ Prop(e.result, "statusCode") # Num(401)

\* an action without the annotation ran although its params hold no
\* __ow_headers object
C10_Witness ==
  \E s \in DOMAIN task :
    LET t == task[s]
    IN /\ t.log # <<>> /\ ~AnnotatedRequireAuth(t.log[1].action) /\ t.log[1].called
       /\ Get(t.log[1].params, "__ow_headers") = Null

\* C11: when the action's main resolves to undefined, invokeAction returns
\* {statusCode: 204, body: ''} (no headers, no other field), and a web request
\* served by that action alone is answered 204 with an empty body.
C11_NoContent ==
  \A s \in DOMAIN task :
    LET t == task[s]
    IN /\ \A j \in DOMAIN t.log :
            (t.log[j].outcome.kind = "return" /\ t.log[j].outcome.value = Undef)
            => t.log[j].result = Obj([statusCode |-> Num(204), body |-> Str(""), headers |-> Undef])
       /\ (/\ t.invoker = "invokeAction" /\ Settled(t) /\ t.log # <<>>
           /\ t.log[1].outcome.kind = "return" /\ t.log[1].outcome.value = Undef)
          => /\ t.pc = "responded"
             /\ t.response = Obj([statusCode |-> Num(204), headers |-> Undef, body |-> Str("")])

\* the main of a web action resolved to undefined and the request was answered
C11_Witness ==
  \E s \in DOMAIN task :
    LET t == task[s]
    IN /\ t.invoker = "invokeAction" /\ t.pc = "responded" /\ Len(t.log) = 1
       /\ t.log[1].called
       /\ t.log[1].outcome = [kind |-> "return", value |-> Undef]
       /\ Prop(t.response, "statusCode") = Num(204)

\* C12: when the value a main resolves to has an error field, the result's
\* statusCode and body are error.statusCode and error.body as they are, and
\* no other field of the value is in the result, whatever error.statusCode is
\* (present or absent, below or above 400).
C12_ErrorPassThrough ==
  \A s \in DOMAIN task :
    \A j \in DOMAIN task[s].log :
      LET e == task[s].log[j]
          r == e.outcome.value
      IN (e.outcome.kind = "return" /\ "error" \in DOMAIN SpreadOf(r))
         => /\ Prop(e.result, "statusCode") = Prop(Prop(r, "error"), "statusCode")
            /\ Prop(e.result, "body") = Prop(Prop(r, "error"), "body")
            /\ \A k \in DOMAIN e.result.o \ {"statusCode", "body"} : e.result.o[k] = Undef

\* C13: for a main that resolves to an object without an error field the
\* result has statusCode = r.statusCode (200 when omitted), body = r.body
\* ('' when omitted) and headers = r.headers, and a web request served by
\* that action is answered with exactly that status, those headers and that
\* body.
C13_ObjectResult ==
  \A s \in DOMAIN task :
    LET t == task[s]
    IN \A j \in DOMAIN t.log :
         LET e == t.log[j]
             r == e.outcome.value
             statusCode == IF "statusCode" \in DOMAIN r.o THEN r.o.statusCode ELSE Num(200)
             body == IF "body" \in DOMAIN r.o THEN r.o.body ELSE Str("")
             headers == Prop(r, "headers")
         IN (e.outcome.kind = "return" /\ r.t = "object" /\ "error" \notin DOMAIN r.o)
            => /\ Prop(e.result, "statusCode") = statusCode
               /\ Prop(e.result, "body") = body
               /\ Prop(e.result, "headers") = headers
               /\ (t.invoker = "invokeAction" /\ Settled(t))
                    => /\ t.pc = "responded"
                       /\ t.response = Obj([statusCode |-> statusCode, headers |-> headers, body |-> body])

\* the item x of the manifest of SpecItems, its web field and its web-export
\* annotation (Undef when absent)
ItemX ==
  IF DeclaresSequence(<<"p">>, <<"x">>) THEN actionConfig[<<"p">>].o.sequences.o[<<"x">>]
  ELSE IF DeclaresAction(<<"p">>, <<"x">>) THEN actionConfig[<<"p">>].o.actions.o[<<"x">>]
  ELSE Undef

WebOf(item) == IF item.t = "object" /\ "web" \in DOMAIN item.o THEN item.o.web ELSE Undef

WebExportOf(item) ==
  IF item.t = "object" /\ "annotations" \in DOMAIN item.o
     /\ "web-export" \in DOMAIN item.o.annotations.o
  THEN item.o.annotations.o["web-export"] ELSE Undef

TruthyRepresentations == {Bool(TRUE), Str("true"), Str("yes"), Str("raw")}
FalsyRepresentations == {Bool(FALSE), Str("false"), Str("no")}

\* C14: isWebAction(item) is true when the web-export annotation or the web
\* field is one of true, 'true', 'yes', 'raw' (also when the other field is
\* false, 'false' or 'no'), and false when each of the two is absent or one
\* of false, 'false', 'no'; the web route invokes the item in the first case
\* and answers 404 without invoking anything in the second.
C14_IsWebAction ==
  LET requested == \E s \in DOMAIN task : Settled(task[s]) /\ WebRoute(task[s].req.path)
      invoked == \E s \in DOMAIN task : task[s].invoked /\ task[s].log # <<>>
      notFound == \A s \in DOMAIN task :
                    /\ ~task[s].invoked /\ task[s].log = <<>> /\ task[s].pc = "responded"
                    /\ Prop(task[s].response, "statusCode") = Num(404)
  IN /\ (WebExportOf(ItemX) \in TruthyRepresentations \/ WebOf(ItemX) \in TruthyRepresentations)
          => /\ isWebAction(ItemX)
             /\ requested => invoked
     /\ (/\ WebExportOf(ItemX) \in FalsyRepresentations \cup {Undef}
         /\ WebOf(ItemX) \in FalsyRepresentations \cup {Undef})
          => /\ ~isWebAction(ItemX)
             /\ requested => notFound

\* an item with the annotation web-export: false and the field web: 'yes'
\* was requested on the web route and invoked
C14_Witness ==
  /\ WebExportOf(ItemX) = Bool(FALSE) /\ WebOf(ItemX) = Str("yes")
  /\ \E s \in DOMAIN task : task[s].pc = "responded" /\ task[s].invoked /\ task[s].log # <<>>

\* the rest of a web route path after the package and item names
RestOfPath(path) ==
  LET parts == Split(RouteParam(path, DEV_API_WEB_PREFIX), "/")
  IN Join(SubSeq(parts, 3, Len(parts)), "/")

\* the four levels a web request's context is built from, low to high:
\* synthetic fields, query string pairs, the declared inputs of the action
\* the path names, the JSON body
ContextLevels(req) ==
  LET declared == IF DeclaresAction(WebPackageName(req.path), WebItemName(req.path))
                  THEN Prop(actionConfig[WebPackageName(req.path)].o.actions.o[WebItemName(req.path)], "inputs")
                  ELSE Undef
  IN << [__ow_body |-> req.body,
         __ow_headers |-> Obj([h \in DOMAIN req.headers \cup {"x-forwarded-for"} |->
                                 IF h = "x-forwarded-for" THEN Str("127.0.0.1") ELSE req.headers[h]]),
         __ow_query |-> Obj(req.query),
         __ow_method |-> Str(IF req.method = "POST" THEN "post" ELSE "get"),
         __ow_path |-> Chars(RestOfPath(req.path))],
        req.query,
        IF declared.t = "object" THEN declared.o ELSE EmptyObj,
        IF req.isJson /\ req.body.t = "object" THEN req.body.o ELSE EmptyObj >>

\* the value of key k at the highest level that has it
HighestLevel(levels, k) ==
  levels[CHOOSE i \in DOMAIN levels :
           k \in DOMAIN levels[i] /\ \A j \in DOMAIN levels : j > i => k \notin DOMAIN levels[j]][k]

\* a web request for which serveWebAction has built the context
ContextBuilt(t) == t.handler = "serveWebAction" /\ (t.invoked \/ t.pc = "responded")

C16_AlwaysResponds ==
  \A s \in DOMAIN task :
    (task[s].handler = "serveWebAction" /\ Settled(task[s]))
    => /\ task[s].pc = "responded"
       /\ task[s].response # Undef

\* C17: every invocation that loads an action's entry point drops the cached
\* module of that path first, so the module it gets is of the version the
\* file has on disk at that moment: after an edit the next invocation runs
\* the edited code, never a version loaded before.
C17_FreshLoad ==
  \A s \in DOMAIN task :
    \A j \in DOMAIN task[s].log :
      LET e == task[s].log[j]
      IN (e.required /\ e.module # "loadThrows")
         => /\ e.version = e.onDisk
            /\ e.onDisk <= disk[Prop(e.action, "function").s]

\* a.js was loaded and run, then edited, then loaded and run again by
\* another request: the second run is of the edited version
C17_Witness ==
  \E s1, s2 \in DOMAIN task :
    /\ task[s1].log # <<>> /\ task[s2].log # <<>>
    /\ task[s1].log[1].called /\ task[s2].log[1].called
    /\ Prop(task[s1].log[1].action, "function") = Str("a.js")
    /\ Prop(task[s2].log[1].action, "function") = Str("a.js")
    /\ task[s1].log[1].version = 0
    /\ task[s2].log[1].version = 1

\* the sequences of the packages that have no action list or list a name
\* (trimmed) that is no action of their package
BadSequences(packages) ==
  {sn \in UNION {DOMAIN SpreadOf(Prop(packages[pk], "sequences")) : pk \in DOMAIN packages} :
     \E pk \in DOMAIN packages :
       LET sequences == SpreadOf(Prop(packages[pk], "sequences"))
           actions == SpreadOf(Prop(packages[pk], "actions"))
           list == Prop(sequences[sn], "actions")
       IN /\ sn \in DOMAIN sequences
          /\ \/ list = Undef
             \/ \E i \in DOMAIN Split(list.c, ",") : Trim(Split(list.c, ",")[i]) \notin DOMAIN actions}

ExactlyRaw(item) == WebExportOf(item) = Str("raw") \/ WebOf(item) = Str("raw")

\* what the invoker of a task returned to serveWebAction
InvokerResult(t) == IF t.invoker = "invokeSequence" THEN t.lastActionResponse ELSE t.returned

\* C19: isRawWebAction is true only when the web-export annotation or the
\* web field is exactly the string 'raw'; a raw item requested on the web
\* route is handled like any other web item: the warning is logged (and only
\* for a raw item), the item is invoked and the response written is the
\* status, headers and body of the result of the invocation.
C19_RawHandledAsWeb ==
  /\ isRawWebAction(ItemX) => ExactlyRaw(ItemX)
  /\ \A s \in DOMAIN task :
       LET t == task[s]
       IN /\ t.warned => ExactlyRaw(ItemX)
          /\ (ExactlyRaw(ItemX) /\ t.handler = "serveWebAction" /\ Settled(t))
               => /\ t.warned /\ t.invoked /\ t.log # <<>>
                  /\ t.pc = "responded"
                       => t.response =
                            Obj([statusCode |-> Prop(InvokerResult(t), "statusCode"),
                                 headers |-> Prop(InvokerResult(t), "headers"),
                                 body |-> Prop(InvokerResult(t), "body")])

\* an action whose web field is 'raw' was requested on the web route: the
\* warning was logged, its main ran and the request was answered 200
C19_Witness ==
  /\ WebOf(ItemX) = Str("raw") /\ WebExportOf(ItemX) = Undef
  /\ isRawWebAction(ItemX)
  /\ \E s \in DOMAIN task :
       /\ task[s].pc = "responded" /\ task[s].warned
       /\ task[s].invoker = "invokeAction" /\ task[s].log[1].called
       /\ Prop(task[s].response, "statusCode") = Num(200)

\* the headers of the request are in the context, with x-forwarded-for
\* forced to '127.0.0.1'
ForwardedHeaders(t) ==
  LET h == Get(t.sequenceParams, "__ow_headers")
  IN /\ h.t = "object"
     /\ DOMAIN h.o = DOMAIN t.req.headers \cup {"x-forwarded-for"}
     /\ h.o["x-forwarded-for"] = Str("127.0.0.1")
     /\ \A k \in DOMAIN t.req.headers \ {"x-forwarded-for"} : h.o[k] = t.req.headers[k]

\* the query string, the declared inputs or the JSON body have a key __ow_headers
OverridesHeaders(req) ==
  \E i \in 2 .. 4 : "__ow_headers" \in DOMAIN ContextLevels(req)[i]

\* C20 as stated: in every context built from a request the x-forwarded-for
\* entry of __ow_headers is '127.0.0.1', whatever x-forwarded-for header the
\* request carried, and every other header of the request is copied unchanged.
C20_ForwardedFor ==
  \A s \in DOMAIN task : ContextBuilt(task[s]) => ForwardedHeaders(task[s])

\* C20 amended: that holds for every request whose query string, declared
\* inputs and JSON body have no key __ow_headers; a value one of them gives
\* for __ow_headers replaces the headers object as a whole.
C20_ForwardedForUnlessOverridden ==
  \A s \in DOMAIN task :
    LET t == task[s]
    IN ContextBuilt(t)
       => IF OverridesHeaders(t.req)
          THEN Get(t.sequenceParams, "__ow_headers") = HighestLevel(ContextLevels(t.req), "__ow_headers")
          ELSE ForwardedHeaders(t)

\* an action ran for a request that carried x-forwarded-for: 10.0.0.1; its
\* context has 127.0.0.1 and the other headers as sent
C20_Witness ==
  \E s \in DOMAIN task :
    LET t == task[s]
    IN /\ t.log # <<>> /\ t.log[1].called
       /\ Get(t.req.headers, "x-forwarded-for") = Str("10.0.0.1")
       /\ Prop(Get(t.log[1].params, "__ow_headers"), "x-forwarded-for") = Str("127.0.0.1")
       /\ Prop(Get(t.log[1].params, "__ow_headers"), "AUTHORIZATION") = Str("Bearer tok")

\* C21 as stated: a main that returned nothing gives the invalid response
\* {statusCode: 400, body: {error: "Response is not valid 'message/http'."}}.
C21_NothingIsInvalid ==
  \A s \in DOMAIN task :
    \A j \in DOMAIN task[s].log :
      LET e == task[s].log[j]
      IN (e.outcome.kind = "return" /\ e.outcome.value = Undef)
         => /\ Prop(e.result, "statusCode") = Num(400)
            /\ Prop(e.result, "body") = Obj([error |-> Str("Response is not valid 'message/http'.")])

\* C21 amended: the invalid response (400 with the fixed message) is the
\* result of a main that threw and of a module without main; a main that
\* returned nothing is no invalid response, its result is status 204 with an
\* empty body.
C21_InvalidOnlyForThrowOrNoMain ==
  \A s \in DOMAIN task :
    \A j \in DOMAIN task[s].log :
      LET e == task[s].log[j]
          invalid == Obj([statusCode |-> Num(400),
                          body |-> Obj([error |-> Str("Response is not valid 'message/http'.")])])
      IN /\ (e.outcome.kind = "throw" \/ e.module = "noMain") => e.result = invalid
         /\ (e.outcome.kind = "return" /\ e.outcome.value = Undef)
              => /\ e.result # invalid
                 /\ Prop(e.result, "statusCode") = Num(204)
                 /\ Prop(e.result, "body") = Str("")

\* in one sequence run the first main returned nothing (204, the sequence
\* went on) and the second main threw (400)
C21_Witness ==
  \E s \in DOMAIN task :
    LET t == task[s]
    IN /\ Len(t.log) = 2
       /\ t.log[1].outcome = [kind |-> "return", value |-> Undef]
       /\ Prop(t.log[1].result, "statusCode") = Num(204)
       /\ t.log[2].outcome.kind = "throw"
       /\ Prop(t.log[2].result, "statusCode") = Num(400)

\* C22: the markers do not leak between invocations in flight: while the main
\* of an invocation runs, process.env.__OW_ACTIVATION_ID is the id generated
\* for that invocation and process.env.__OW_ACTION_NAME is its action's name.
C22_NoMarkerLeak ==
  \A s \in DOMAIN task :
    LET t == task[s]
    IN t.pc = "running"
       => /\ owActivationId = t.log[Len(t.log)].activationId
          /\ owActionName = Chars(t.log[Len(t.log)].name)

\* an invocation executed code: the gate let it pass and the module was required
Executed(e) == e.required

\* C23: every invocation, stand-alone or a step of a sequence, has the two
\* markers set while its main runs, process.env.__OW_ACTION_NAME being the
\* name of the action that runs, and both markers are cleared once the
\* invocation is over, whether main returned or threw.
C23_MarkersSetAndCleared ==
  \A s \in DOMAIN task :
    LET t == task[s]
        e == t.log[Len(t.log)]
    IN /\ t.pc = "running"
          => /\ owActivationId = e.activationId
             /\ owActionName = Chars(e.name)
       /\ (t.log # <<>> /\ t.pc # "running" /\ Executed(e))
          => /\ owActivationId = Undef
             /\ owActionName = Undef

\* the invocation a step appended to the log of a task, rejected by the gate
RejectedNow(s) ==
  /\ Len(task'[s].log) = Len(task[s].log) + 1
  /\ task'[s].log[Len(task'[s].log)].gate # Undef

\* C24: when the auth gate rejects, invokeAction returns the 401 result at
\* once and executes no code: the module cache is not touched, the entry
\* point is neither required nor called, and the two markers stay as they were.
C24_GateRejectsWithoutEffect ==
  [][\A s \in DOMAIN task :
       RejectedNow(s)
       => LET e == task'[s].log[Len(task'[s].log)]
          IN /\ Prop(e.result, "statusCode") = Num(401)
             /\ e.result = e.gate
             /\ ~e.required /\ ~e.called
             /\ task'[s].pc # "running"
             /\ task'[s].lastActionResponse = e.result \/ task'[s].returned = e.result
             /\ requireCache' = requireCache
             /\ owActivationId' = owActivationId
             /\ owActionName' = owActionName]_vars

\* the second step of a sequence was rejected by the gate after the first had
\* run: the cache holds the first step's module only and the activation id is
\* still the first step's
C24_Witness ==
  \E s \in DOMAIN task :
    LET t == task[s]
    IN /\ Len(t.log) = 2
       /\ t.log[1].called
       /\ t.log[2].gate # Undef
       /\ Prop(t.log[2].result, "statusCode") = Num(401)
       /\ owActivationId = t.log[1].activationId
       /\ \A m \in requireCache : m.path = "a.js"
       /\ requireCache # {}

NormalizedNames == {"statusCode", "headers", "body"}

\* the status, headers and body invokeAction resolves from a return value
Resolved(r) ==
  LET from == IF Truthy(Prop(r, "error")) THEN Prop(r, "error") ELSE r
  IN IF ~Truthy(r) THEN [statusCode |-> Num(204), headers |-> Undef, body |-> Str("")]
     ELSE [statusCode |-> OrElse(Prop(from, "statusCode"), Num(200)),
           headers |-> Prop(r, "headers"),
           body |-> OrElse(Prop(from, "body"), Str(""))]

\* the top-level fields of a return value besides statusCode, headers and body
ExtraFields(r) == IF r.t = "object" THEN DOMAIN r.o \ NormalizedNames ELSE {}

ProcessedPaths == [i \in DOMAIN watch.processed |-> watch.processed[i].path]

\* the change whose build is in flight
InFlight == IF watch.pc = "building" THEN <<watch.current>> ELSE <<>>

\* the changes processed, in flight and waiting are, in this order, the
\* changes that arrived; buildActions was called for each processed change
\* of an action's file; nothing waits when no build is in progress
ArrivalOrderKept ==
  /\ ProcessedPaths \o InFlight \o watch.queue = watch.events
  /\ \A i \in DOMAIN watch.processed :
       watch.processed[i].built = (getActionNameFromPath(watch.processed[i].path) # {})
  /\ ~watch.buildInProgress => watch.queue = <<>>
  /\ dequeue(<<>>).element = Undef

C27_SingleBuildInFlight ==
  /\ watch.running <= 1
  /\ watch.running = 1 <=> watch.pc = "building"
  /\ watch.pc = "building" => watch.buildInProgress

\* two changes were delivered while the one build ran
C27_Witness ==
  /\ watch.running = 1
  /\ watch.enqueued = 2
  /\ Len(watch.processed) = 0

C29_GateSeesRequestHeaders ==
  \A s \in DOMAIN task :
    LET t == task[s]
    IN t.invoker = "invokeSequence"
       => \A j \in DOMAIN t.log : t.log[j].gate = AuthGate(t.log[j].action, t.sequenceParams)

\* the item is declared web exposed by its web field or its web-export annotation
Exposed(item) ==
  WebExportOf(item) \in TruthyRepresentations \/ WebOf(item) \in TruthyRepresentations

\* C30 as stated: no action that is not web exposed is executed for a request
\* on the web route, be it named in the URL or a component of a sequence.
C30_OnlyWebActionsExecuted ==
  \A s \in DOMAIN task :
    LET t == task[s]
    IN t.handler = "serveWebAction"
       => \A j \in DOMAIN t.log : t.log[j].required => Exposed(t.log[j].action)

\* C30 amended: code is executed for a request on the web route only when the
\* item its URL names (the sequence of that name, else the action) is web
\* exposed; an action named in the URL is executed only if it is web exposed
\* itself, while the components of a web exposed sequence are executed
\* whatever their own exposure.
C30_OnlyWebItemsDispatched ==
  \A s \in DOMAIN task :
    LET t == task[s]
    IN (t.handler = "serveWebAction" /\ t.log # <<>>)
       => /\ Exposed(WebItem(t.req.path))
          /\ t.invoker = "invokeAction"
             => /\ Len(t.log) = 1
                /\ t.log[1].action = WebItem(t.req.path)
                /\ Exposed(t.log[1].action)

\* the web sequence t (' c,a ,r') was requested and its first component c,
\* which is not web exposed, ran and returned
C30_Witness ==
  \E s \in DOMAIN task :
    LET t == task[s]
    IN /\ t.handler = "serveWebAction"
       /\ t.invoker = "invokeSequence"
       /\ Exposed(WebItem(t.req.path))
       /\ t.log # <<>>
       /\ t.log[1].name = <<"c">>
       /\ ~Exposed(t.log[1].action)
       /\ t.log[1].called
       /\ t.log[1].outcome.kind = "return"

\* the names of the inputs an action declares
DeclaredInputs(action) ==
  IF Prop(action, "inputs").t = "object" THEN DOMAIN Prop(action, "inputs").o ELSE {}

\* C31: every action whose main is called, stand-alone or at any position of
\* a sequence, the first included, has each of the inputs it declares in the
\* parameters it is called with.
C31_OwnInputsReceived ==
  \A s \in DOMAIN task :
    \A j \in DOMAIN task[s].log :
      LET e == task[s].log[j]
      IN e.called => \A k \in DeclaredInputs(e.action) : Get(e.params, k) # Undef

\* C32: the context of every step of a sequence is built fresh and shares no
\* mutable object with the context of another step: what an action assigns
\* to its params or to their __ow_headers is not seen by a later step, whose
\* __ow_headers are the ones built from the request unless the step before
\* returned a __ow_headers of its own.
C32_NoSharedContext ==
  \A s \in DOMAIN task :
    LET t == task[s]
    IN \A j \in 2 .. Len(t.log) :
         "__ow_headers" \notin DOMAIN SpreadOf(t.log[j - 1].result)
         => Get(t.log[j].params, "__ow_headers") = OwHeaders(t.req)

\* C33: the change handler always returns to idle: when no build it started
\* is running any more, whether the builds succeeded or failed and also when
\* closing the watcher failed, buildInProgress is false and the queue is
\* empty, so that a later change starts a build instead of waiting forever.
C33_ReturnsToIdle ==
  watch.running = 0 => (~watch.buildInProgress /\ watch.queue = <<>>)

\* some build has failed
BuildFailed == \E i \in DOMAIN watch.processed : ~watch.processed[i].ok

TimesCalled(func) == Cardinality({i \in DOMAIN dev.calls : dev.calls[i] = func})

\* C35: Cleanup.run invokes every registered function exactly once, in the
\* order of registration, and leaves the registry empty; a further run, also
\* one a second SIGINT starts while the first still awaits a function,
\* invokes no function a second time.
C35_EachCleanupOnce ==
  /\ \A func \in CleanupFuncs : TimesCalled(func) <= 1
  /\ Len(dev.calls) <= Len(dev.registered)
  /\ \A i \in DOMAIN dev.calls : i <= Len(dev.registered) => dev.calls[i] = dev.registered[i]
  /\ \A r \in DOMAIN dev.runs :
       dev.runs[r].pc = "done" => (dev.resources = <<>> /\ Len(dev.calls) >= Len(dev.registered))

\* the action list of the sequence a request ran
ActionListOf(t) == Prop(WebItem(t.req.path), "actions")

\* the request was dispatched to invokeSequence and invokeSequence has returned
SequenceReturned(t) == t.invoker = "invokeSequence" /\ t.invoked /\ Settled(t)

\* C36 as stated: invokeSequence on a sequence whose action list is absent or
\* empty invokes no action and returns no result (null).
C36_NoListNoResult ==
  \A s \in DOMAIN task :
    LET t == task[s]
    IN (SequenceReturned(t) /\ ActionListOf(t) \in {Undef, Chars(<<>>)})
       => /\ t.log = <<>>
          /\ t.lastActionResponse = Null

\* C36 amended: invokeSequence invokes no action in either case; it returns
\* null for a sequence without an action list, while the empty string is a
\* list of one component with the empty name, which no package declares: the
\* result is {statusCode: 400, body: {error: 'Sequence component does not
\* exist.'}}.
C36_NullOnlyWithoutList ==
  \A s \in DOMAIN task :
    LET t == task[s]
    IN SequenceReturned(t)
       => /\ ActionListOf(t) = Undef => (t.log = <<>> /\ t.lastActionResponse = Null)
          /\ ActionListOf(t) = Chars(<<>>)
               => (t.log = <<>> /\ t.lastActionResponse = SequenceComponentMissing
                   /\ t.pc = "responded" /\ Prop(t.response, "statusCode") = Num(400))

\* the sequence with the empty action list was requested: nothing was
\* invoked and the answer is the 400 of a missing component
C36_Witness ==
  \E s \in DOMAIN task :
    LET t == task[s]
    IN /\ SequenceReturned(t)
       /\ ActionListOf(t) = Chars(<<>>)
       /\ t.actions = <<<<>>>>
       /\ t.log = <<>>
       /\ Prop(t.response, "statusCode") = Num(400)
====
